---- MODULE Spec2Model ----
(***************************************************************************)
(* A model of casanode-api's NodeManager (app/src/utils/node.ts): the      *)
(* TOML-like config store, the in-memory node configuration, the VPN type  *)
(* transition (vpnChangeType) and the wallet operations driven through     *)
(* the container CLI.                                                      *)
(*                                                                         *)
(* A config file is a sequence of lines; a line is a section header        *)
(* "[name]", a "key = value" line or a blank line.  A raw value is its     *)
(* text and whether the text is wrapped in double quotes.                  *)
(***************************************************************************)
EXTENDS Integers, Sequences, FiniteSets, TLC

VARIABLES
    fsMain,      \* CONFIG_DIR/config.toml: [exists, lines]
    fsSub,       \* CONFIG_DIR/<type>/config.toml, one per VPN type
    nodeConfig,  \* NodeManager.nodeConfig (the fields the operations read)
    container,   \* the container: "absent", "stopped" or "running"
    run,         \* the vpnChangeType invocation in flight (its await points)
    vcLast,      \* what the current/last vpnChangeType invocation did
    keyring,     \* CONFIG_DIR/keyring-file: [exists, hasAddress]
    wLast,       \* what the last wallet operation did
    csLast,      \* what the last direct use of the config store did
    call,        \* the last call of an operation that keeps no state: inputs, result
    server       \* the API server: [secret |-> JWT_SECRET, now |-> the clock]

vars == <<fsMain, fsSub, nodeConfig, container, run, vcLast, keyring, wLast, csLast, call, server>>

-----------------------------------------------------------------------------
(* Bounds *)

\* vpn_port values range over 0..MaxPort
MaxPort == 1

\* the files handed to the config store directly have at most MaxLines lines
MaxLines == 3

\* a remote_addrs array has at most MaxAddrs entries
MaxAddrs == 2

\* config.API_BALANCE lists at most MaxEndpoints balance endpoints
MaxEndpoints == 2

\* the pieces of an Authorization header text
MaxHeader == 3

\* the ticks of the server's clock
MaxClock == 2

VpnTypes == {"wireguard", "v2ray", "openvpn"}
Protocols == {"udp", "tcp"}
Ports == 0..MaxPort

-----------------------------------------------------------------------------
(* Text of values *)

DigitStr == <<"0", "1", "2", "3", "4", "5", "6", "7", "8", "9">>

\* `${n}` / n.toString() for the port numbers of the model
NumToStr(n) == DigitStr[n + 1]

\* /^\d+$/.test(s) on the texts of the model
IsDigits(s) == \E i \in 1..Len(DigitStr) : DigitStr[i] = s

\* parseInt(s, 10) of an all-digit text
StrToNum(s) == (CHOOSE i \in 1..Len(DigitStr) : DigitStr[i] = s) - 1

\* the value "undefined" of a number | undefined
NoNum == -1

\* String.prototype.toLowerCase on the texts of the model
ToLower(s) ==
    CASE s = "TCP" -> "tcp"
      [] s = "UDP" -> "udp"
      [] OTHER -> s

Raw(q, t) == [q |-> q, t |-> t]
NoVal == Raw(FALSE, "")

Hdr(name) == [k |-> "hdr", name |-> name, val |-> NoVal]
Kv(key, val) == [k |-> "kv", name |-> key, val |-> val]
Blank == [k |-> "blank", name |-> "", val |-> NoVal]

\* the text "[name]"
Bracketed(name) == "[" \o name \o "]"

\* the text starts with "[" or "{" (array / inline table literal)
StartsBracket(t) == t \in {"[]", "[\"127.0.0.1\"]"}

\* formatTomlValue: numbers and booleans are written bare; quote === false
\* writes the raw string; quote === true wraps it; by default a plain scalar
\* is wrapped and a literal starting with [ or { is passed through.
FormatTomlValue(isNum, t, quote) ==
    IF isNum THEN Raw(FALSE, t)
    ELSE IF quote = "false" THEN Raw(FALSE, t)
    ELSE IF quote = "true" THEN Raw(TRUE, t)
    ELSE IF StartsBracket(t) THEN Raw(FALSE, t)
    ELSE Raw(TRUE, t)

\* cleanTomlValue / stripQuotes: one layer of surrounding quotes removed
CleanTomlValue(v) == v.t

\* (.+) in the key regex: the raw text after "=" is not empty
HasText(v) == v.q \/ v.t # ""

-----------------------------------------------------------------------------
(* ConfigStore: extraction *)

\* index of the first line in lo..hi satisfying the key regex, 0 if none
FirstKey(lines, lo, hi, key, needText) ==
    LET hits == {i \in lo..hi : /\ i \in 1..Len(lines)
                                /\ lines[i].k = "kv"
                                /\ lines[i].name = key
                                /\ (needText => HasText(lines[i].val))}
    IN IF hits = {} THEN 0 ELSE CHOOSE i \in hits : \A j \in hits : i <= j

\* extractConfigValue: /^\s*key\s*=\s*(.+)$/m anywhere in the text
ExtractConfigValue(lines, key) ==
    LET i == FirstKey(lines, 1, Len(lines), key, TRUE)
    IN IF i = 0 THEN "" ELSE CleanTomlValue(lines[i].val)

\* the line holds the text "[section]": the header itself, or a value with
\* that text (the section regex is not anchored to the start of a line)
HoldsSectionText(line, section) ==
    \/ line.k = "hdr" /\ line.name = section
    \/ line.k = "kv" /\ line.val.t = Bracketed(section)

\* index of the first line holding the text "[section]", 0 if none
FirstHeader(lines, section) ==
    LET hits == {i \in 1..Len(lines) : HoldsSectionText(lines[i], section)}
    IN IF hits = {} THEN 0 ELSE CHOOSE i \in hits : \A j \in hits : i <= j

\* last line of the block that starts at header h and ends before the next
\* line starting with "[" or at the end of the text
BlockEnd(lines, h) ==
    LET nxt == {i \in (h + 1)..Len(lines) : lines[i].k = "hdr"}
    IN IF nxt = {} THEN Len(lines) ELSE (CHOOSE i \in nxt : \A j \in nxt : i <= j) - 1

\* extractConfigValueInSection: \[section\]([\s\S]*?)(?=\r?\n\[|$) without
\* the m flag, so $ is the end of the text
ExtractConfigValueInSection(lines, section, key) ==
    LET h == FirstHeader(lines, section)
    IN IF h = 0 THEN ""
       ELSE LET i == FirstKey(lines, h + 1, BlockEnd(lines, h), key, TRUE)
            IN IF i = 0 THEN "" ELSE CleanTomlValue(lines[i].val)

-----------------------------------------------------------------------------
(* ConfigStore: rewriting.  A write to an absent file throws (ENOENT from   *)
(* fs.readFileSync); the operators below work on the lines of an existing   *)
(* file.                                                                    *)

\* ^\s* of the key regex also matches the blank lines right before the key
\* line: the first line at or after lo from which only blank lines lead to
\* line i
MatchStart(lines, lo, i) ==
    LET starts == {j \in lo..i : \A m \in j..(i - 1) : lines[m].k = "blank"}
    IN CHOOSE j \in starts : \A m \in starts : j <= m

\* String.prototype.replace of the first match of /^\s*key\s*=.*$/m found
\* in the lines lo..hi by `key = value`; the lines as they are if none
ReplaceFirstKey(lines, lo, hi, key, val) ==
    LET i == FirstKey(lines, lo, hi, key, FALSE)
    IN IF i = 0 THEN lines
       ELSE SubSeq(lines, 1, MatchStart(lines, lo, i) - 1)
            \o <<Kv(key, val)>> \o SubSeq(lines, i + 1, Len(lines))

\* updateConfigValue: /^\s*key\s*=.*$/m, first match replaced
UpdateConfigValue(lines, key, val) == ReplaceFirstKey(lines, 1, Len(lines), key, val)

UpdateIgnoringSection(lines, section, key, val) == UpdateConfigValue(lines, key, val)

SectionMatchWhole(lines, h) == BlockEnd(lines, h)

\* Last line matched by (\[section\][\s\S]*?)(?=\n\[|$) with the m flag:
\* $ matches at the end of the line that holds "[section]", so the lazy
\* match stops there and the matched text is "[section]" and the rest of
\* that line.
SectionMatchEnd(lines, h) == h

\* updateConfigValueInSection: the key regex is applied to the matched
\* section text only, which starts at the "[" of "[section]"
UpdateConfigValueInSection(lines, section, key, val) ==
    LET h == FirstHeader(lines, section)
    IN IF h = 0 THEN lines
       ELSE ReplaceFirstKey(lines, h + 1, SectionMatchEnd(lines, h), key, val)

-----------------------------------------------------------------------------
(* NodeConfigModel *)

File(lines) == [exists |-> TRUE, lines |-> lines]
NoFile == [exists |-> FALSE, lines |-> <<>>]

\* defaultNodeConfig
DefaultNodeConfig ==
    [vpn_type |-> "wireguard", vpn_protocol |-> "udp", vpn_port |-> 0,
     backend |-> "test", handshake |-> TRUE, wallet_name |-> "operator",
     walletPublicAddress |-> "", walletNodeAddress |-> "",
     node_type |-> "", hourly_prices |-> "",
     node_ip |-> <<>>, node_ipv6 |-> <<>>, walletPassphrase |-> ""]

\* DATACENTER_HOURLY_PRICES and RESIDENTIAL_HOURLY_PRICES
DatacenterHourlyPrices == "udvpn:0.005,25_000_000"
ResidentialHourlyPrices == "udvpn:0.005,25_000_000"

\* parseBoolean
ParseBoolean(s) == ToLower(s) \in {"true", "1", "yes", "on"}

\* parsePortValue: the last ":"-separated segment, if all digits
ParsePortValue(s) == IF IsDigits(s) THEN StrToNum(s) ELSE NoNum

\* x || d for strings
OrElse(x, d) == IF x = "" THEN d ELSE x

\* loadVpnConfig: the port (and for openvpn the protocol) of the sub-config
\* that backs cfg.vpn_type; "" stands for an undefined vpn_protocol
LoadVpnConfig(cfg, sub) ==
    LET t == cfg.vpn_type
        portValue == ExtractConfigValue(sub[t].lines, "port")
        parsedPort == IF portValue # "" THEN ParsePortValue(portValue) ELSE NoNum
        withPort == IF sub[t].exists /\ parsedPort # NoNum
                    THEN [cfg EXCEPT !.vpn_port = parsedPort] ELSE cfg
        protocolValue == ExtractConfigValue(sub[t].lines, "protocol")
        normalizedProtocol == IF protocolValue # "" THEN ToLower(protocolValue) ELSE ""
    IN CASE t = "wireguard" -> [withPort EXCEPT !.vpn_protocol = "udp"]
         [] t = "v2ray" -> [withPort EXCEPT !.vpn_protocol = "tcp"]
         [] t = "openvpn" ->
              IF sub[t].exists
              THEN [withPort EXCEPT !.vpn_protocol =
                        IF normalizedProtocol = "tcp" THEN "tcp" ELSE "udp"]
              ELSE [cfg EXCEPT !.vpn_protocol = "udp"]
         [] OTHER -> [cfg EXCEPT !.vpn_protocol = OrElse(cfg.vpn_protocol, "udp")]

\* node_type as loadNodeConfig derives it from hourly_prices
NodeTypeOf(hourlyPrices) ==
    IF hourlyPrices = DatacenterHourlyPrices THEN "datacenter"
    ELSE IF hourlyPrices # "" THEN "residential"
    ELSE ""

\* the body of loadNodeConfig on the content of config.toml: the fields are
\* read from it, vpn_port and vpn_protocol are cleared and loadVpnConfig runs
LoadFromContent(cfg, lines, sub) ==
    LET walletName == ExtractConfigValueInSection(lines, "tx", "from_name")
        hourlyPrices == ExtractConfigValue(lines, "hourly_prices")
        c1 == [cfg EXCEPT
                 !.vpn_type = OrElse(ExtractConfigValueInSection(lines, "node", "service_type"), "wireguard"),
                 !.backend = OrElse(ExtractConfigValueInSection(lines, "keyring", "backend"), "test"),
                 !.wallet_name = OrElse(walletName, "operator"),
                 !.handshake = ParseBoolean(ExtractConfigValueInSection(lines, "handshake_dns", "enable")),
                 !.hourly_prices = hourlyPrices,
                 !.node_type = NodeTypeOf(hourlyPrices),
                 !.vpn_port = 0,
                 !.vpn_protocol = ""]
    IN LoadVpnConfig(c1, sub)

LoadNodeConfigUnguarded(cfg, main, sub) == LoadFromContent(cfg, main.lines, sub)

\* loadNodeConfig: nothing if config.toml is absent
LoadNodeConfig(cfg, main, sub) ==
    IF ~main.exists THEN cfg ELSE LoadFromContent(cfg, main.lines, sub)

\* the lines refreshConfigFiles writes into config.toml, in order
\* (of the keys the model keeps)
RefreshMainLines(lines, cfg) ==
    LET l1 == UpdateConfigValueInSection(lines, "node", "service_type",
                  FormatTomlValue(FALSE, cfg.vpn_type, "default"))
        l2 == UpdateConfigValueInSection(l1, "keyring", "backend",
                  FormatTomlValue(FALSE, cfg.backend, "default"))
        l3 == UpdateConfigValueInSection(l2, "tx", "from_name",
                  FormatTomlValue(FALSE, cfg.wallet_name, "default"))
        l4 == UpdateConfigValueInSection(l3, "handshake_dns", "enable",
                  FormatTomlValue(FALSE, IF cfg.handshake THEN "true" ELSE "false", "false"))
    IN UpdateConfigValue(l4, "hourly_prices",
           FormatTomlValue(FALSE, IF cfg.node_type = "residential"
                                  THEN ResidentialHourlyPrices
                                  ELSE DatacenterHourlyPrices, "default"))

-----------------------------------------------------------------------------
(* External collaborators: the container runtime and node-init *)

ContainerExists(c) == c # "absent"
ContainerRunning(c) == c = "running"
ContainerStop(c) == "stopped"
ContainerRemove(c) == "absent"
ContainerStart(c) == "running"

\* a config.toml as node-init writes it for service type t
InitMainLines(t, backend) ==
    <<Hdr("node"), Kv("service_type", Raw(TRUE, t)),
      Hdr("keyring"), Kv("backend", Raw(TRUE, backend)),
      Hdr("tx"), Kv("from_name", Raw(TRUE, "operator")),
      Hdr("handshake_dns"), Kv("enable", Raw(FALSE, IF t = "wireguard" THEN "true" ELSE "false"))>>

\* a sub-config as node-init writes it for service type t
InitSubLines(t, port, proto) ==
    IF t = "openvpn"
    THEN <<Kv("port", Raw(TRUE, NumToStr(port))), Kv("protocol", Raw(TRUE, proto))>>
    ELSE <<Kv("port", Raw(TRUE, NumToStr(port)))>>

\* node-init run for service type t: materializes the missing files
NodeInitMain(main, t, backend) ==
    IF main.exists THEN main ELSE File(InitMainLines(t, backend))
NodeInitSub(sub, t) ==
    IF sub[t].exists THEN sub ELSE [sub EXCEPT ![t] = File(InitSubLines(t, 1, "udp"))]

-----------------------------------------------------------------------------
(* VpnTransitionCoordinator: vpnChangeType, one action per stretch of code  *)
(* between two awaits                                                       *)

Idle == [pc |-> "idle", port |-> 0, awaited |-> TRUE, running |-> FALSE, initType |-> ""]

NoRun == [valid |-> FALSE, via |-> "", kase |-> "", result |-> "", calls |-> <<>>,
          preContainer |-> "", requested |-> "", persisted |-> "", diskBefore |-> "",
          subExisted |-> FALSE, initOk |-> ""]

\* a caller may act: no invocation is in flight, or the one in flight was
\* started by refreshConfigFiles, which does not await it
CanCall == run.pc = "idle" \/ ~run.awaited

\* the port (and for openvpn the protocol) written into the sub-config of
\* cfg.vpn_type; the file is known to exist
ApplyVpnPort(sub, cfg, port) ==
    LET t == cfg.vpn_type
        l == sub[t].lines
    IN CASE t = "wireguard" ->
              [sub EXCEPT ![t].lines = UpdateConfigValue(l, "port", FormatTomlValue(TRUE, NumToStr(port), "true"))]
         [] t = "v2ray" ->
              [sub EXCEPT ![t].lines = UpdateConfigValue(l, "port", FormatTomlValue(TRUE, NumToStr(port), "false"))]
         [] t = "openvpn" ->
              LET l1 == UpdateConfigValue(l, "port", FormatTomlValue(TRUE, NumToStr(port), "true"))
              IN [sub EXCEPT ![t].lines =
                     IF cfg.vpn_protocol # ""
                     THEN UpdateConfigValue(l1, "protocol", FormatTomlValue(FALSE, cfg.vpn_protocol, "true"))
                     ELSE l1]
         [] OTHER -> sub

\* fs.readFileSync in updateConfigValue throws when the sub-config of
\* cfg.vpn_type is absent
ApplyThrows(sub, cfg) == cfg.vpn_type \in VpnTypes /\ ~sub[cfg.vpn_type].exists

\* the change case's writes into config.toml: service_type, handshake_dns.enable
ChangeMainLines(lines, cfg) ==
    LET l1 == UpdateConfigValueInSection(lines, "node", "service_type",
                  FormatTomlValue(FALSE, cfg.vpn_type, "default"))
    IN UpdateConfigValueInSection(l1, "handshake_dns", "enable",
           FormatTomlValue(FALSE, IF cfg.vpn_type = "wireguard" THEN "true" ELSE "false", "false"))

\* createVpnConfig returns true without node-init when the sub-config exists
VpnConfigAvailable(sub, cfg) == sub[cfg.vpn_type].exists

RunNodeInitIgnoresNull(outputNotNull) == TRUE

\* runNodeInitCommand: success iff the container command's output is not null
RunNodeInitSucceeded(outputNotNull) == outputNotNull

\* where the reconciliation goes after reading exists and running
ReconcileEntry(exists, running) ==
    IF ~exists THEN "done" ELSE IF running THEN "stop" ELSE "remove"

AfterRemoveAlwaysStarts(running) == "start"

\* after containerRemove: start again only if it was running
AfterRemove(running) == IF running THEN "start" ELSE "done"

\* vpnChangeType up to its first await, on a config.toml with these lines
\* (the file exists); via is "direct" or "refresh"
VpnChangeTypeBegin(lines, via) ==
    LET current == ExtractConfigValueInSection(lines, "node", "service_type")
        req == nodeConfig.vpn_type
        obs == [valid |-> TRUE, via |-> via, kase |-> "noop", result |-> "pending",
                calls |-> <<>>, preContainer |-> container, requested |-> req,
                persisted |-> current,
                diskBefore |-> ExtractConfigValueInSection(fsMain.lines, "node", "service_type"),
                subExisted |-> fsSub[req].exists, initOk |-> ""]
    IN IF current = req
       THEN /\ fsMain' = File(lines)
            /\ run' = Idle
            /\ UNCHANGED <<nodeConfig, container>>
            /\ IF ApplyThrows(fsSub, nodeConfig)
               THEN /\ vcLast' = [obs EXCEPT !.result = "throws"]
                    /\ UNCHANGED fsSub
               ELSE /\ vcLast' = [obs EXCEPT !.result = "true"]
                    /\ fsSub' = ApplyVpnPort(fsSub, nodeConfig, nodeConfig.vpn_port)
       ELSE /\ fsMain' = File(ChangeMainLines(lines, nodeConfig))
            /\ UNCHANGED <<nodeConfig, container, fsSub>>
            /\ IF VpnConfigAvailable(fsSub, nodeConfig)
               THEN /\ run' = [pc |-> "apply", port |-> nodeConfig.vpn_port,
                               awaited |-> (via = "direct"), running |-> FALSE, initType |-> ""]
                    /\ vcLast' = [obs EXCEPT !.kase = "change"]
               ELSE /\ run' = [pc |-> "init", port |-> nodeConfig.vpn_port,
                               awaited |-> (via = "direct"), running |-> FALSE, initType |-> req]
                    /\ vcLast' = [obs EXCEPT !.kase = "change", !.calls = <<"init">>]

\* the exported vpnChangeType, called and awaited by the API layer
VpnChangeType ==
    /\ run.pc = "idle"
    /\ IF ~fsMain.exists
       THEN /\ vcLast' = [NoRun EXCEPT !.valid = TRUE, !.via = "direct", !.kase = "none",
                                       !.result = "throws", !.preContainer = container,
                                       !.requested = nodeConfig.vpn_type]
            /\ UNCHANGED <<fsMain, fsSub, nodeConfig, container, run>>
       ELSE VpnChangeTypeBegin(fsMain.lines, "direct")
    /\ UNCHANGED <<keyring, wLast, csLast, call, server>>

\* refreshConfigFiles: the writes into config.toml, then vpnChangeType()
\* without await; an exception of the writes is caught and logged
RefreshConfigFiles ==
    /\ run.pc = "idle"
    /\ IF ~fsMain.exists
       THEN UNCHANGED <<fsMain, fsSub, nodeConfig, container, run, vcLast>>
       ELSE VpnChangeTypeBegin(RefreshMainLines(fsMain.lines, nodeConfig), "refresh")
    /\ UNCHANGED <<keyring, wLast, csLast, call, server>>

\* the node-init container command returns: createVpnConfig reloads the
\* model on success, and vpnChangeType returns false on failure
NodeInitReturns ==
    /\ run.pc = "init"
    /\ \E outputNotNull \in BOOLEAN :
         LET main == IF outputNotNull THEN NodeInitMain(fsMain, run.initType, nodeConfig.backend) ELSE fsMain
             sub == IF outputNotNull THEN NodeInitSub(fsSub, run.initType) ELSE fsSub
             ran == [vcLast EXCEPT !.initOk = IF outputNotNull THEN "ok" ELSE "failed"]
         IN /\ fsMain' = main
            /\ fsSub' = sub
            /\ IF RunNodeInitSucceeded(outputNotNull)
               THEN /\ nodeConfig' = LoadNodeConfig(nodeConfig, main, sub)
                    /\ run' = [run EXCEPT !.pc = "apply"]
                    /\ vcLast' = ran
               ELSE /\ run' = Idle
                    /\ vcLast' = [ran EXCEPT !.result = "false"]
                    /\ UNCHANGED nodeConfig
    /\ UNCHANGED <<container, keyring, wLast, csLast, call, server>>

\* after createVpnConfig: the port is written into the sub-config of the
\* in-memory vpn_type and the model is reloaded
ApplyAndReload ==
    /\ run.pc = "apply"
    /\ IF ApplyThrows(fsSub, nodeConfig)
       THEN /\ run' = Idle
            /\ vcLast' = [vcLast EXCEPT !.result = "throws"]
            /\ UNCHANGED <<fsSub, nodeConfig>>
       ELSE LET sub == ApplyVpnPort(fsSub, nodeConfig, run.port)
            IN /\ fsSub' = sub
               /\ nodeConfig' = LoadNodeConfig(nodeConfig, fsMain, sub)
               /\ run' = [run EXCEPT !.pc = "reconcile"]
               /\ UNCHANGED vcLast
    /\ UNCHANGED <<fsMain, container, keyring, wLast, csLast, call, server>>

\* containerExists() and containerRunning()
ReconcileRead ==
    /\ run.pc = "reconcile"
    /\ LET running == ContainerRunning(container)
           to == ReconcileEntry(ContainerExists(container), running)
       IN IF to = "done"
          THEN /\ run' = Idle
               /\ vcLast' = [vcLast EXCEPT !.result = "true"]
          ELSE /\ run' = [run EXCEPT !.pc = to, !.running = running]
               /\ UNCHANGED vcLast
    /\ UNCHANGED <<fsMain, fsSub, nodeConfig, container, keyring, wLast, csLast, call, server>>

ReconcileStop ==
    /\ run.pc = "stop"
    /\ container' = ContainerStop(container)
    /\ vcLast' = [vcLast EXCEPT !.calls = Append(@, "stop")]
    /\ run' = [run EXCEPT !.pc = "remove"]
    /\ UNCHANGED <<fsMain, fsSub, nodeConfig, keyring, wLast, csLast, call, server>>

ReconcileRemove ==
    /\ run.pc = "remove"
    /\ container' = ContainerRemove(container)
    /\ IF AfterRemove(run.running) = "done"
       THEN /\ run' = Idle
            /\ vcLast' = [vcLast EXCEPT !.calls = Append(@, "remove"), !.result = "true"]
       ELSE /\ run' = [run EXCEPT !.pc = "start"]
            /\ vcLast' = [vcLast EXCEPT !.calls = Append(@, "remove")]
    /\ UNCHANGED <<fsMain, fsSub, nodeConfig, keyring, wLast, csLast, call, server>>

ReconcileStart ==
    /\ run.pc = "start"
    /\ container' = ContainerStart(container)
    /\ vcLast' = [vcLast EXCEPT !.calls = Append(@, "start"), !.result = "true"]
    /\ run' = Idle
    /\ UNCHANGED <<fsMain, fsSub, nodeConfig, keyring, wLast, csLast, call, server>>

-----------------------------------------------------------------------------
(* Setters and reloads of the in-memory model *)

SetVpnTypeCfg(cfg, t) ==
    [cfg EXCEPT !.vpn_type = t,
                !.handshake = (t = "wireguard"),
                !.vpn_protocol = CASE t = "wireguard" -> "udp"
                                   [] t = "v2ray" -> "tcp"
                                   [] t = "openvpn" /\ cfg.vpn_protocol = "" -> "udp"
                                   [] OTHER -> cfg.vpn_protocol]

SetVpnType ==
    /\ CanCall
    /\ \E t \in VpnTypes : nodeConfig' = SetVpnTypeCfg(nodeConfig, t)
    /\ UNCHANGED <<fsMain, fsSub, container, run, vcLast, keyring, wLast, csLast, call, server>>

SetVpnPortPersisting ==
    /\ CanCall
    /\ \E p \in Ports :
         /\ nodeConfig' = [nodeConfig EXCEPT !.vpn_port = p]
         /\ fsSub' = IF ApplyThrows(fsSub, nodeConfig) THEN fsSub
                      ELSE ApplyVpnPort(fsSub, nodeConfig, p)
    /\ UNCHANGED <<fsMain, container, run, vcLast, keyring, wLast, csLast, call, server>>

SetVpnPort ==
    /\ CanCall
    /\ \E p \in Ports : nodeConfig' = [nodeConfig EXCEPT !.vpn_port = p]
    /\ UNCHANGED <<fsMain, fsSub, container, run, vcLast, keyring, wLast, csLast, call, server>>

SetVpnProtocol ==
    /\ CanCall
    /\ \E p \in Protocols : nodeConfig' = [nodeConfig EXCEPT !.vpn_protocol = p]
    /\ UNCHANGED <<fsMain, fsSub, container, run, vcLast, keyring, wLast, csLast, call, server>>

ResetNodeConfig ==
    /\ CanCall
    /\ nodeConfig' = DefaultNodeConfig
    /\ UNCHANGED <<fsMain, fsSub, container, run, vcLast, keyring, wLast, csLast, call, server>>

LoadNodeConfigCall ==
    /\ CanCall
    /\ nodeConfig' = LoadNodeConfig(nodeConfig, fsMain, fsSub)
    /\ UNCHANGED <<fsMain, fsSub, container, run, vcLast, keyring, wLast, csLast, call, server>>

\* setNodeType: the type, and the prices of a known type
SetNodeTypeCfg(cfg, t) ==
    [cfg EXCEPT !.node_type = t,
                !.hourly_prices = CASE t = "datacenter" -> DatacenterHourlyPrices
                                    [] t = "residential" -> ResidentialHourlyPrices
                                    [] OTHER -> cfg.hourly_prices]

SetNodeType ==
    /\ CanCall
    /\ \E t \in {"datacenter", "residential", ""} :
         /\ nodeConfig' = SetNodeTypeCfg(nodeConfig, t)
         /\ call' = [op |-> "setNodeType", t |-> t]
    /\ UNCHANGED <<fsMain, fsSub, container, run, vcLast, keyring, wLast, csLast, server>>

-----------------------------------------------------------------------------
(* The node addresses loadNodeConfig reads.  An address text is a sequence  *)
(* of pieces: the punctuation marks [ ] : , " and the blank, and chunks of  *)
(* other characters; the empty sequence is the empty string.                *)

SP == " "
QUOTE == "\""

\* chunks that are all digits
DigitChunks == {"8080"}

\* String.prototype.trim
RECURSIVE TrimText(_)
TrimText(s) ==
    IF s = <<>> THEN s
    ELSE IF Head(s) = SP THEN TrimText(Tail(s))
    ELSE IF s[Len(s)] = SP THEN TrimText(SubSeq(s, 1, Len(s) - 1))
    ELSE s

\* stripQuotes (double quotes)
StripQuotes(value) ==
    LET t == TrimText(value)
    IN IF t # <<>> /\ Head(t) = QUOTE /\ t[Len(t)] = QUOTE
       THEN SubSeq(t, 2, Len(t) - 1) ELSE t

\* indexOf and lastIndexOf of a one-character piece, 0 when absent
IndexOf(s, c) ==
    IF \E i \in 1..Len(s) : s[i] = c
    THEN CHOOSE i \in 1..Len(s) : s[i] = c /\ \A j \in 1..(i - 1) : s[j] # c
    ELSE 0
LastIndexOf(s, c) ==
    IF \E i \in 1..Len(s) : s[i] = c
    THEN CHOOSE i \in 1..Len(s) : s[i] = c /\ \A j \in (i + 1)..Len(s) : s[j] # c
    ELSE 0

\* String.prototype.includes for a run of pieces
IncludesRun(s, r) ==
    \E i \in 1..(Len(s) - Len(r) + 1) : SubSeq(s, i, i + Len(r) - 1) = r

\* String.prototype.split(',')
RECURSIVE SplitComma(_)
SplitComma(s) ==
    LET i == IndexOf(s, ",")
    IN IF i = 0 THEN <<s>>
       ELSE <<SubSeq(s, 1, i - 1)>> \o SplitComma(SubSeq(s, i + 1, Len(s)))

\* parseTomlArray
ParseTomlArray(value) ==
    IF value = <<>> THEN <<>>
    ELSE LET n == TrimText(value)
             inner == IF n # <<>> /\ Head(n) = "[" /\ n[Len(n)] = "]"
                      THEN SubSeq(n, 2, Len(n) - 1) ELSE n
             parts == SplitComma(inner)
             items == [i \in 1..Len(parts) |-> StripQuotes(TrimText(parts[i]))]
         IN SelectSeq(items, LAMBDA item : item # <<>>)

\* normalizeAddress
NormalizeAddress(value) == TrimText(StripQuotes(value))

\* extractHost: the brackets of an IPv6 literal or a numeric port are removed
ExtractHost(address) ==
    LET n == TrimText(address)
        closing == IndexOf(n, "]")
        lastColon == LastIndexOf(n, ":")
        portCandidate == TrimText(SubSeq(n, lastColon + 1, Len(n)))
    IN IF n = <<>> THEN <<>>
       ELSE IF Head(n) = "["
       THEN IF closing > 1 THEN SubSeq(n, 2, closing - 1) ELSE n
       ELSE IF lastColon > 0 /\ IndexOf(n, ":") = lastColon
               /\ Len(portCandidate) = 1 /\ portCandidate[1] \in DigitChunks
       THEN SubSeq(n, 1, lastColon - 1)
       ELSE n

\* isIPv6Address
IsIPv6Address(address) ==
    IncludesRun(address, <<":">>) /\ ~IncludesRun(address, <<":", ":", "ffff", ":">>)

\* parseEndpoint(...).ip of the api_port entry, <<>> when it carries none
ParseEndpointIp(entry) ==
    LET cleaned == StripQuotes(entry)
        lastColon == LastIndexOf(cleaned, ":")
    IN IF cleaned = <<>> THEN <<>>
       ELSE IF Head(cleaned) = "[" THEN SubSeq(cleaned, 2, IndexOf(cleaned, "]") - 1)
       ELSE IF Len(cleaned) = 1 /\ cleaned[1] \in DigitChunks THEN <<>>
       ELSE IF lastColon > 0 /\ IndexOf(cleaned, ":") = lastColon
       THEN SubSeq(cleaned, 1, lastColon - 1)
       ELSE cleaned

\* loadNodeConfig on the node addresses: node_ip from the api_port entry,
\* then node_ip and node_ipv6 from the remote_addrs array
LoadNodeAddresses(cfg, apiPortEntry, remoteAddrsRaw) ==
    LET apiIp == ParseEndpointIp(apiPortEntry)
        c1 == IF apiIp # <<>> THEN [cfg EXCEPT !.node_ip = apiIp] ELSE cfg
        parsed == ParseTomlArray(remoteAddrsRaw)
        remoteAddrs == [i \in 1..Len(parsed) |-> NormalizeAddress(parsed[i])]
        hosts == [i \in 1..Len(remoteAddrs) |-> ExtractHost(remoteAddrs[i])]
        remoteHostCandidates == SelectSeq(hosts, LAMBDA a : a # <<>>)
        c2 == IF remoteHostCandidates # <<>>
                 /\ (c1.node_ip = <<>> \/ c1.node_ip = <<"0.0.0.0">>)
              THEN [c1 EXCEPT !.node_ip = remoteHostCandidates[1]] ELSE c1
        v6 == SelectSeq(remoteHostCandidates, IsIPv6Address)
        c3 == IF v6 # <<>> THEN [c2 EXCEPT !.node_ipv6 = v6[1]] ELSE c2
    IN IF TrimText(c3.node_ip) = <<>> THEN [c3 EXCEPT !.node_ip = <<"0.0.0.0">>] ELSE c3

\* extractFirstListItem
ExtractFirstListItem(value) ==
    LET n == TrimText(value)
        inner == IF n # <<>> /\ Head(n) = "[" /\ n[Len(n)] = "]"
                 THEN TrimText(SubSeq(n, 2, Len(n) - 1)) ELSE n
        comma == IndexOf(inner, ",")
        first == IF comma # 0 THEN SubSeq(inner, 1, comma - 1) ELSE inner
    IN IF value = <<>> THEN <<>> ELSE StripQuotes(TrimText(first))

\* formatRemoteAddresses: ["a", "b"]
RECURSIVE JoinQuoted(_)
JoinQuoted(addresses) ==
    IF Len(addresses) = 1 THEN <<QUOTE>> \o addresses[1] \o <<QUOTE>>
    ELSE <<QUOTE>> \o addresses[1] \o <<QUOTE, ",", SP>> \o JoinQuoted(Tail(addresses))
FormatRemoteAddresses(addresses) ==
    IF addresses = <<>> THEN <<"[", QUOTE, "127.0.0.1", QUOTE, "]">>
    ELSE <<"[">> \o JoinQuoted(addresses) \o <<"]">>

\* addresses: IPv4 and IPv6 hosts, with and without a port, and an
\* IPv4-mapped IPv6 host
V4 == <<"203.0.113.5">>
V4Other == <<"198.51.100.7">>
V6 == <<"2001", ":", "db8", ":", ":", "1">>
V6Other == <<"fd00", ":", ":", "2">>
V4Port == V4 \o <<":", "8080">>
V6Port == <<"[">> \o V6 \o <<"]", ":", "8080">>
V4Mapped == <<":", ":", "ffff", ":", "203.0.113.5">>
RemoteEntries == {V4, V4Port, V6, V6Port, V4Mapped}
RemoteArrays == UNION {[1..n -> RemoteEntries] : n \in 0..MaxAddrs}

\* the api_port values of config.toml: a port, or an IP and a port
ApiPortValues == {<<QUOTE, "8080", QUOTE>>, <<QUOTE>> \o V4Other \o <<":", "8080", QUOTE>>}

AddressFrame == UNCHANGED <<fsMain, fsSub, container, run, vcLast, keyring, wLast, csLast, server>>

SetNodeIp ==
    /\ \E ip \in {<<>>, <<"0.0.0.0">>, V4Other} :
         nodeConfig' = [nodeConfig EXCEPT !.node_ip = ip]
    /\ call' = [op |-> "setNodeIp"]
    /\ AddressFrame

SetNodeIpv6 ==
    /\ \E ip \in {<<>>, V6Other} : nodeConfig' = [nodeConfig EXCEPT !.node_ipv6 = ip]
    /\ call' = [op |-> "setNodeIpv6"]
    /\ AddressFrame

\* loadNodeConfig on a config.toml whose [node] section holds these api_port
\* and remote_addrs values (extractConfigValueInSection cleans them)
LoadAddresses ==
    /\ \E apiPort \in ApiPortValues, remote \in RemoteArrays :
         /\ nodeConfig' = LoadNodeAddresses(nodeConfig,
                              ExtractFirstListItem(StripQuotes(apiPort)),
                              StripQuotes(FormatRemoteAddresses(remote)))
         /\ call' = [op |-> "loadNodeConfig", apiPort |-> apiPort, remote |-> remote,
                      ipBefore |-> nodeConfig.node_ip, ipv6Before |-> nodeConfig.node_ipv6]
    /\ AddressFrame

-----------------------------------------------------------------------------
(* WalletManager: texts.  A CLI output is null or a text; a text is a       *)
(* sequence of whitespace-separated tokens, NL standing for a line break.   *)

\* the number of words of a mnemonic (walletCreate's length test)
MnemonicWords == 24

NL == "\n"
PassErrTok == "incorrect passphrase"
PublicAddr == "sent1abc"
NodeAddr == "sentnode1xyz"

NullOut == [null |-> TRUE, toks |-> <<>>]
Text(toks) == [null |-> FALSE, toks |-> toks]

\* a passphrase argument: null, blank or a real one
NullPass == "<null>"
Passphrases == {NullPass, " ", "secret"}
Trim(s) == IF s = " " THEN "" ELSE s

\* isPassphraseError of @utils/docker: the text carries the marker of a
\* wrong or missing keyring passphrase
IsPassphraseError(toks) == \E i \in 1..Len(toks) : toks[i] = PassErrTok

\* sent\w+ : the token starts with "sent"
IsSentToken(tok) == tok \in {PublicAddr, NodeAddr}
\* sentnode\w+
IsNodeToken(tok) == tok = NodeAddr
\* [a-z]+ with the i flag: letters only
IsAlphaToken(tok) == tok \in {"word", "Name", "operator", "other", "deleted", "error"}

\* String.prototype.includes(s) on a text: s is a substring of some token
SubstringOf(s, tok) == s = tok \/ (s = "operator" /\ tok = "operator2")
Includes(toks, s) == \E i \in 1..Len(toks) : SubstringOf(s, toks[i])

Min(S) == CHOOSE x \in S : \A y \in S : x <= y

\* index of the first token after position i that is not a line break, 0 if none
NextNonBlank(toks, i) ==
    LET js == {j \in (i + 1)..Len(toks) : toks[j] # NL}
    IN IF js = {} THEN 0 ELSE Min(js)

\* /e?address:\s*(sent\w+)/i : the label, optional whitespace, a sent token
LabelledAddress(toks) ==
    LET hits == {i \in 1..Len(toks) :
                    /\ toks[i] = "address:"
                    /\ NextNonBlank(toks, i) # 0
                    /\ IsSentToken(toks[NextNonBlank(toks, i)])}
    IN IF hits = {} THEN "" ELSE toks[NextNonBlank(toks, Min(hits))]

\* /\bsentnode\w+\b/
FirstNodeAddress(toks) ==
    LET hits == {i \in 1..Len(toks) : IsNodeToken(toks[i])}
    IN IF hits = {} THEN "" ELSE toks[Min(hits)]

\* /\bsent(?!node)\w+\b/
FirstBareAddress(toks) ==
    LET hits == {i \in 1..Len(toks) : IsSentToken(toks[i]) /\ ~IsNodeToken(toks[i])}
    IN IF hits = {} THEN "" ELSE toks[Min(hits)]

\* /mnemonic:\s*([^\n]+)/i then split(/\s+/): the tokens after the label
\* up to the end of their line; <<>> if the regex does not match
MnemonicLine(toks) ==
    LET hits == {i \in 1..Len(toks) : toks[i] = "mnemonic:" /\ NextNonBlank(toks, i) # 0}
    IN IF hits = {} THEN <<>>
       ELSE LET from == NextNonBlank(toks, Min(hits))
                nls == {j \in from..Len(toks) : toks[j] = NL}
                to == IF nls = {} THEN Len(toks) ELSE Min(nls) - 1
            IN SubSeq(toks, from, to)

\* /\b(?:[a-z]+(?:\s+|$)){24}\b/i then split(/\s+/): 24 consecutive
\* letter-only tokens that end the text or are followed by another token
MnemonicFallback(toks) ==
    LET w == SelectSeq(toks, LAMBDA t : t # NL)
        endsInBreak == Len(toks) > 0 /\ toks[Len(toks)] = NL
        hits == {i \in 1..(Len(w) - MnemonicWords + 1) :
                    /\ \A j \in i..(i + MnemonicWords - 1) : IsAlphaToken(w[j])
                    /\ (i + MnemonicWords - 1 < Len(w) \/ ~endsInBreak)}
    IN IF hits = {} THEN <<>> ELSE SubSeq(w, Min(hits), Min(hits) + MnemonicWords - 1)

\* parseKeysAddOutput: null unless a public address is found
ParseKeysAddOutput(toks) ==
    LET line == MnemonicLine(toks)
    IN [found |-> LabelledAddress(toks) # "",
        nodeAddress |-> FirstNodeAddress(toks),
        publicAddress |-> LabelledAddress(toks),
        mnemonicArray |-> IF line # <<>> THEN line ELSE MnemonicFallback(toks)]

-----------------------------------------------------------------------------
(* WalletManager: the texts the CLI may answer with *)

Words(n) == [i \in 1..n |-> "word"]

NoTpl == [kind |-> "none", addr |-> "none", node |-> FALSE, mn |-> "none", n |-> 0]

Tpl(a, nd, mn, n) == [kind |-> "text", addr |-> a, node |-> nd, mn |-> mn, n |-> n]

\* answers of `keys add`: null, a passphrase error, or a text with or without
\* a public address (labelled "address:" or bare), a node address and a
\* mnemonic (on a "mnemonic:" line, or bare words that end the text or are
\* followed by a line break) of 23, 24 or 25 words
AddTemplates ==
    {[NoTpl EXCEPT !.kind = "null"], [NoTpl EXCEPT !.kind = "passerr"]} \cup
    {Tpl(a, TRUE, "none", 0) : a \in {"none", "labelled", "bare"}} \cup
    {Tpl(x[1], TRUE, x[2], MnemonicWords) :
        x \in {"none", "labelled", "bare"} \X {"line", "bare", "bareNL"}} \cup
    {Tpl("labelled", TRUE, x[1], x[2]) :
        x \in {"line", "bare"} \X {MnemonicWords - 1, MnemonicWords + 1}} \cup
    {Tpl("labelled", FALSE, "line", MnemonicWords)}

AddressPart(a) ==
    CASE a = "labelled" -> <<"address:", PublicAddr, NL>>
      [] a = "bare" -> <<PublicAddr, NL>>
      [] OTHER -> <<>>

TemplateOut(tpl) ==
    IF tpl.kind = "null" THEN NullOut
    ELSE IF tpl.kind = "passerr" THEN Text(<<PassErrTok>>)
    ELSE Text(AddressPart(tpl.addr)
              \o (IF tpl.node THEN <<NodeAddr, NL>> ELSE <<>>)
              \o (CASE tpl.mn = "line" -> <<"mnemonic:">> \o Words(tpl.n) \o <<NL>>
                     [] tpl.mn = "bare" -> Words(tpl.n)
                     [] tpl.mn = "bareNL" -> Words(tpl.n) \o <<NL>>
                     [] OTHER -> <<>>))

\* walletRecover ignores the mnemonic of the answer: the answers without one
\* and those with a 24-word "mnemonic:" line
RecoverTemplates == {tpl \in AddTemplates : tpl.mn \in {"none", "line"} /\ tpl.n \in {0, MnemonicWords}}

\* the answer of `keys add` per template, and what parseKeysAddOutput makes of it
AddOutputs == [tpl \in AddTemplates |-> TemplateOut(tpl)]
ParsedAdd == [tpl \in AddTemplates |-> ParseKeysAddOutput(TemplateOut(tpl).toks)]

\* answers of `keys list`
ListOutputs ==
    {NullOut, Text(<<PassErrTok>>), Text(<<"Name", "operator">>),
     Text(<<"Name", "other">>), Text(<<"Name", "operator2">>)}

\* answers of `keys delete`
DeleteOutputs ==
    {NullOut, Text(<<PassErrTok>>), Text(<<>>), Text(<<"deleted">>), Text(<<"error">>)}

\* answers of `keys show`
ShowOutputs ==
    {NullOut, Text(<<PassErrTok>>), Text(<<>>),
     Text(<<"address:", PublicAddr, NL, NodeAddr>>),
     Text(<<PublicAddr>>), Text(<<NodeAddr>>)}

-----------------------------------------------------------------------------
(* WalletManager: the operations *)

PassphraseRequiredAnyBackend(cfg, kr) == kr.exists /\ kr.hasAddress

\* passphraseRequired: backend "file" and a keyring directory holding an
\* .address file
PassphraseRequired(cfg, kr) == cfg.backend = "file" /\ kr.exists /\ kr.hasAddress

\* isPassphraseValid
IsPassphraseValid(cfg, kr, p) ==
    ~(PassphraseRequired(cfg, kr) /\ (p = NullPass \/ Trim(p) = ""))

GetBackend(cfg) == IF Trim(cfg.backend) # "" THEN cfg.backend ELSE "test"
GetWalletName(cfg) == IF Trim(cfg.wallet_name) # "" THEN cfg.wallet_name ELSE "operator"

\* buildStdinCommand: the passphrase appended passphraseRepeat times
BuildStdinCommand(p, passphraseRepeat, stdin) ==
    IF p # NullPass THEN stdin \o [i \in 1..passphraseRepeat |-> p] ELSE stdin

PassRepeat(cfg, kr) == IF PassphraseRequired(cfg, kr) THEN 2 ELSE 0

\* walletExists reaches its `keys list` command
WalletExistsLists(cfg, kr, p) ==
    IsPassphraseValid(cfg, kr, p) /\ Trim(cfg.wallet_name) # ""

\* walletExists: "true", "false" or "undefined"
WalletExistsResult(cfg, kr, p, out) ==
    IF ~IsPassphraseValid(cfg, kr, p) THEN "undefined"
    ELSE IF Trim(cfg.wallet_name) = "" THEN "undefined"
    ELSE IF out.null \/ IsPassphraseError(out.toks) THEN "undefined"
    ELSE IF Includes(out.toks, cfg.wallet_name) THEN "true" ELSE "false"

\* `if (exists)` in walletCreate and walletRecover: undefined is falsy
ExistsIsTruthy(exists) == exists = "true"

\* walletRemove's output test: '' or /deleted|removed/i
DeleteConfirmed(toks) ==
    toks = <<>> \/ \E i \in 1..Len(toks) : toks[i] \in {"deleted", "removed"}

ClearPublicOnly(cfg) == [cfg EXCEPT !.walletPublicAddress = ""]

\* the stored addresses are reset
ClearAddresses(cfg) == [cfg EXCEPT !.walletPublicAddress = "", !.walletNodeAddress = ""]

\* the keyring directory after `keys add` created a key under this backend
KeyringAfterAdd(kr, backend, created) ==
    IF created /\ backend = "file" THEN [exists |-> TRUE, hasAddress |-> TRUE] ELSE kr

NoWallet ==
    [valid |-> FALSE, op |-> "", pass |-> "", required |-> FALSE, result |-> "",
     words |-> <<>>, cli |-> <<>>, stdin |-> <<>>, exists |-> "none",
     listOut |-> NullOut, addTpl |-> NoTpl, cmdOut |-> NullOut,
     pubBefore |-> "", nodeBefore |-> "", mnemonicLen |-> 0,
     backendBefore |-> "", keyringBefore |-> [exists |-> FALSE, hasAddress |-> FALSE],
     passValid |-> TRUE]

\* what every wallet operation records when it is called
Called(op, p) ==
    [NoWallet EXCEPT !.valid = TRUE, !.op = op, !.pass = p,
                     !.required = PassphraseRequired(nodeConfig, keyring),
                     !.passValid = IsPassphraseValid(nodeConfig, keyring, p),
                     !.backendBefore = nodeConfig.backend,
                     !.keyringBefore = keyring,
                     !.pubBefore = nodeConfig.walletPublicAddress,
                     !.nodeBefore = nodeConfig.walletNodeAddress]

\* the part of a record the walletExists call inside an operation fills
Listed(rec, p, lo) ==
    IF WalletExistsLists(nodeConfig, keyring, p)
    THEN [rec EXCEPT !.cli = <<"list">>, !.listOut = lo,
                     !.exists = WalletExistsResult(nodeConfig, keyring, p, lo)]
    ELSE [rec EXCEPT !.exists = WalletExistsResult(nodeConfig, keyring, p, lo)]

WalletFrame == UNCHANGED <<fsMain, fsSub, container, run, vcLast, csLast, call, server>>

WalletExists ==
    /\ run.pc = "idle"
    /\ \E p \in Passphrases :
         IF ~WalletExistsLists(nodeConfig, keyring, p)
         THEN wLast' = [Called("exists", p) EXCEPT
                           !.exists = WalletExistsResult(nodeConfig, keyring, p, NullOut),
                           !.result = WalletExistsResult(nodeConfig, keyring, p, NullOut)]
         ELSE \E lo \in ListOutputs :
                wLast' = [Listed(Called("exists", p), p, lo) EXCEPT
                             !.result = WalletExistsResult(nodeConfig, keyring, p, lo)]
    /\ UNCHANGED <<nodeConfig, keyring>>
    /\ WalletFrame

\* the `keys add` command of walletCreate returned: rec is the record so far
CreateAdd(rec, p, tpl) ==
    LET out == AddOutputs[tpl]
        parsed == ParsedAdd[tpl]
        added == [rec EXCEPT !.cli = Append(@, "add"), !.addTpl = tpl,
                     !.stdin = BuildStdinCommand(p, PassRepeat(nodeConfig, keyring), <<"", "">>)]
    IN IF out.null \/ IsPassphraseError(out.toks)
       THEN /\ wLast' = [added EXCEPT !.result = "undefined"]
            /\ UNCHANGED <<nodeConfig, keyring>>
       ELSE IF parsed.found /\ Len(parsed.mnemonicArray) = MnemonicWords
       THEN /\ wLast' = [added EXCEPT !.result = "list", !.words = parsed.mnemonicArray]
            /\ nodeConfig' = [nodeConfig EXCEPT !.walletNodeAddress = parsed.nodeAddress,
                                                 !.walletPublicAddress = parsed.publicAddress]
            /\ keyring' = KeyringAfterAdd(keyring, GetBackend(nodeConfig), TRUE)
       ELSE /\ wLast' = [added EXCEPT !.result = "null"]
            /\ UNCHANGED nodeConfig
            /\ keyring' = KeyringAfterAdd(keyring, GetBackend(nodeConfig), tpl.addr # "none")

WalletCreate ==
    /\ run.pc = "idle"
    /\ \E p \in Passphrases :
         IF ~IsPassphraseValid(nodeConfig, keyring, p)
         THEN /\ wLast' = [Called("create", p) EXCEPT !.result = "null"]
              /\ UNCHANGED <<nodeConfig, keyring>>
         ELSE \E lo \in IF WalletExistsLists(nodeConfig, keyring, p) THEN ListOutputs ELSE {NullOut} :
                LET rec == Listed(Called("create", p), p, lo)
                IN IF ExistsIsTruthy(rec.exists)
                   THEN /\ wLast' = [rec EXCEPT !.result = "null"]
                        /\ UNCHANGED <<nodeConfig, keyring>>
                   ELSE \E tpl \in AddTemplates : CreateAdd(rec, p, tpl)
    /\ WalletFrame

RecoverAddChecksWords(rec, p, tpl) ==
    LET out == AddOutputs[tpl]
        parsed == ParsedAdd[tpl]
        added == [rec EXCEPT !.cli = Append(@, "add"), !.addTpl = tpl]
    IN IF out.null \/ IsPassphraseError(out.toks)
       THEN /\ wLast' = [added EXCEPT !.result = "undefined"]
            /\ UNCHANGED <<nodeConfig, keyring>>
       ELSE IF parsed.found /\ rec.mnemonicLen = MnemonicWords
       THEN /\ wLast' = [added EXCEPT !.result = "true"]
            /\ nodeConfig' = [nodeConfig EXCEPT !.walletNodeAddress = parsed.nodeAddress,
                                                 !.walletPublicAddress = parsed.publicAddress]
            /\ UNCHANGED keyring
       ELSE /\ wLast' = [added EXCEPT !.result = "false"]
            /\ UNCHANGED <<nodeConfig, keyring>>

\* the `keys add` command of walletRecover returned
RecoverAdd(rec, p, tpl) ==
    LET out == AddOutputs[tpl]
        parsed == ParsedAdd[tpl]
        baseInput == IF PassphraseRequired(nodeConfig, keyring)
                     THEN <<"<mnemonic>", "">> ELSE <<"<mnemonic>", "", "", "">>
        added == [rec EXCEPT !.cli = Append(@, "add"), !.addTpl = tpl,
                     !.stdin = BuildStdinCommand(p, PassRepeat(nodeConfig, keyring), baseInput)]
    IN IF out.null \/ IsPassphraseError(out.toks)
       THEN /\ wLast' = [added EXCEPT !.result = "undefined"]
            /\ UNCHANGED <<nodeConfig, keyring>>
       ELSE IF parsed.found
       THEN /\ wLast' = [added EXCEPT !.result = "true"]
            /\ nodeConfig' = [nodeConfig EXCEPT !.walletNodeAddress = parsed.nodeAddress,
                                                 !.walletPublicAddress = parsed.publicAddress]
            /\ keyring' = KeyringAfterAdd(keyring, GetBackend(nodeConfig), TRUE)
       ELSE /\ wLast' = [added EXCEPT !.result = "false"]
            /\ UNCHANGED nodeConfig
            /\ keyring' = KeyringAfterAdd(keyring, GetBackend(nodeConfig), tpl.addr # "none")

WalletRecover ==
    /\ run.pc = "idle"
    /\ \E p \in Passphrases, m \in {MnemonicWords - 1, MnemonicWords} :
         IF ~IsPassphraseValid(nodeConfig, keyring, p)
         THEN /\ wLast' = [Called("recover", p) EXCEPT !.result = "false", !.mnemonicLen = m]
              /\ UNCHANGED <<nodeConfig, keyring>>
         ELSE \E lo \in IF WalletExistsLists(nodeConfig, keyring, p) THEN ListOutputs ELSE {NullOut} :
                LET rec == [Listed(Called("recover", p), p, lo) EXCEPT !.mnemonicLen = m]
                IN IF ExistsIsTruthy(rec.exists)
                   THEN /\ wLast' = [rec EXCEPT !.result = "false"]
                        /\ UNCHANGED <<nodeConfig, keyring>>
                   ELSE \E tpl \in RecoverTemplates : RecoverAdd(rec, p, tpl)
    /\ WalletFrame

\* the `keys delete` command of walletRemove returned
RemoveDelete(rec, p, out) ==
    LET named == [nodeConfig EXCEPT !.wallet_name = GetWalletName(nodeConfig)]
        deleted == [rec EXCEPT !.cli = Append(@, "delete"), !.cmdOut = out,
                       !.stdin = BuildStdinCommand(p, PassRepeat(nodeConfig, keyring), <<"yes">>)]
    IN IF out.null \/ IsPassphraseError(out.toks)
       THEN /\ wLast' = [deleted EXCEPT !.result = "undefined"]
            /\ nodeConfig' = named
       ELSE IF DeleteConfirmed(out.toks)
       THEN /\ wLast' = [deleted EXCEPT !.result = "true"]
            /\ nodeConfig' = ClearAddresses(named)
       ELSE /\ wLast' = [deleted EXCEPT !.result = "false"]
            /\ nodeConfig' = named

WalletRemove ==
    /\ run.pc = "idle"
    /\ \E p \in Passphrases :
         IF ~IsPassphraseValid(nodeConfig, keyring, p)
         THEN /\ wLast' = [Called("remove", p) EXCEPT !.result = "false"]
              /\ UNCHANGED nodeConfig
         ELSE \E lo \in IF WalletExistsLists(nodeConfig, keyring, p) THEN ListOutputs ELSE {NullOut} :
                LET rec == Listed(Called("remove", p), p, lo)
                IN IF rec.exists # "true"
                   THEN /\ wLast' = [rec EXCEPT !.result =
                                         IF rec.exists = "undefined" THEN "undefined" ELSE "true"]
                        /\ UNCHANGED nodeConfig
                   ELSE \E out \in DeleteOutputs : RemoveDelete(rec, p, out)
    /\ UNCHANGED keyring
    /\ WalletFrame

\* the `keys show` command of walletLoadAddresses returned
LoadShow(rec, p, out) ==
    LET named == [nodeConfig EXCEPT !.wallet_name = GetWalletName(nodeConfig)]
        shown == [rec EXCEPT !.cli = Append(@, "show"), !.cmdOut = out,
                     !.stdin = BuildStdinCommand(p, 1, <<>>)]
        labelled == LabelledAddress(out.toks)
        public == IF labelled # "" THEN labelled ELSE FirstBareAddress(out.toks)
    IN IF out.null \/ IsPassphraseError(out.toks)
       THEN /\ wLast' = [shown EXCEPT !.result = "undefined"]
            /\ nodeConfig' = named
       ELSE /\ wLast' = [shown EXCEPT !.result = IF public = "" THEN "false" ELSE "true"]
            /\ nodeConfig' = [named EXCEPT !.walletPublicAddress = public,
                                            !.walletNodeAddress = FirstNodeAddress(out.toks)]

WalletLoadAddresses ==
    /\ run.pc = "idle"
    /\ \E p \in Passphrases :
         IF ~IsPassphraseValid(nodeConfig, keyring, p)
         THEN /\ wLast' = [Called("load", p) EXCEPT !.result = "false"]
              /\ UNCHANGED nodeConfig
         ELSE \E lo \in IF WalletExistsLists(nodeConfig, keyring, p) THEN ListOutputs ELSE {NullOut} :
                LET rec == Listed(Called("load", p), p, lo)
                IN IF rec.exists = "undefined"
                   THEN /\ wLast' = [rec EXCEPT !.result = "undefined"]
                        /\ UNCHANGED nodeConfig
                   ELSE IF rec.exists = "false"
                   THEN /\ wLast' = [rec EXCEPT !.result = "false"]
                        /\ nodeConfig' = ClearAddresses(nodeConfig)
                   ELSE \E out \in ShowOutputs : LoadShow(rec, p, out)
    /\ UNCHANGED keyring
    /\ WalletFrame

SetBackend ==
    /\ CanCall
    /\ \E b \in {"test", "file"} : nodeConfig' = [nodeConfig EXCEPT !.backend = b]
    /\ UNCHANGED <<fsMain, fsSub, container, run, vcLast, keyring, wLast, csLast, call, server>>

-----------------------------------------------------------------------------
(* ConfigStore used directly: one file, one key rewritten and read back,    *)
(* or one key read from a section                                           *)

StoreSections == {"a", "b", "c"}
StoreKeys == {"k", "z"}
StoreValues == {"v1", "v2"}

\* the lines of the files: headers [a] and [b], the key k with a quoted
\* value, the key j whose value is the text "[b]", and blank lines
StoreLines ==
    {Hdr("a"), Hdr("b"), Blank, Kv("j", Raw(TRUE, Bracketed("b")))}
    \cup {Kv("k", Raw(TRUE, v)) : v \in StoreValues}

StoreFiles == UNION {[1..n -> StoreLines] : n \in 0..MaxLines}

\* no such call was made yet
NoCall == [op |-> "none"]

\* config.JWT_SECRET missing from the configuration
NoSecret == "<undefined>"

\* the API server where no request is modelled
ServerOff == [secret |-> NoSecret, now |-> 0]

NoStore == [valid |-> FALSE, op |-> "", section |-> "", key |-> "", val |-> "",
            before |-> <<>>, after |-> <<>>, got |-> ""]

StoreFrame == UNCHANGED <<fsSub, nodeConfig, container, run, vcLast, keyring, wLast, call, server>>

\* updateConfigValue(file, key, v) then extractConfigValue(content, key)
UpdateValue ==
    /\ fsMain.exists
    /\ \E key \in StoreKeys, v \in StoreValues :
         LET after == UpdateConfigValue(fsMain.lines, key, FormatTomlValue(FALSE, v, "default"))
         IN /\ fsMain' = File(after)
            /\ csLast' = [valid |-> TRUE, op |-> "update", section |-> "", key |-> key,
                          val |-> v, before |-> fsMain.lines, after |-> after,
                          got |-> ExtractConfigValue(after, key)]
    /\ StoreFrame

\* updateConfigValueInSection(file, section, key, v) then
\* extractConfigValueInSection(content, section, key)
UpdateValueInSection ==
    /\ fsMain.exists
    /\ \E section \in StoreSections, key \in StoreKeys, v \in StoreValues :
         LET after == UpdateConfigValueInSection(fsMain.lines, section, key,
                                                 FormatTomlValue(FALSE, v, "default"))
         IN /\ fsMain' = File(after)
            /\ csLast' = [valid |-> TRUE, op |-> "updateInSection", section |-> section,
                          key |-> key, val |-> v, before |-> fsMain.lines, after |-> after,
                          got |-> ExtractConfigValueInSection(after, section, key)]
    /\ StoreFrame

\* extractConfigValueInSection(content, section, key)
ExtractValueInSection ==
    /\ fsMain.exists
    /\ \E section \in StoreSections, key \in StoreKeys :
         csLast' = [valid |-> TRUE, op |-> "extractInSection", section |-> section,
                    key |-> key, val |-> "", before |-> fsMain.lines, after |-> fsMain.lines,
                    got |-> ExtractConfigValueInSection(fsMain.lines, section, key)]
    /\ UNCHANGED fsMain
    /\ StoreFrame

-----------------------------------------------------------------------------
(* getWalletBalance: one response per configured endpoint, in order.  A     *)
(* request fails (timeout, network or HTTP error) or answers with a body:   *)
(* empty, a JSON object without balances, or one with a balances array      *)
(* that holds a udvpn entry or none.                                        *)

Million == 1000000

Failed == [kind |-> "failed", udvpn |-> 0]
EmptyBody == [kind |-> "empty", udvpn |-> 0]
ErrorBody == [kind |-> "noBalances", udvpn |-> 0]
OtherDenoms == [kind |-> "balancesWithoutUdvpn", udvpn |-> 0]
Balances(a) == [kind |-> "balances", udvpn |-> a]
Responses == {Failed, EmptyBody, ErrorBody, OtherDenoms, Balances(5 * Million), Balances(12 * Million)}

\* axios.get resolved and response.data is truthy
HasData(r) == r.kind \notin {"failed", "empty"}

\* the index of the endpoint whose response ends the loop, 0 if none does
RECURSIVE FirstWithData(_, _)
FirstWithData(responses, i) ==
    IF i > Len(responses) THEN 0
    ELSE IF HasData(responses[i]) THEN i
    ELSE FirstWithData(responses, i + 1)

\* walletBalance.amount: 0, or the udvpn amount of apiResponse.balances
BalanceAmount(responses) ==
    LET i == FirstWithData(responses, 1)
    IN IF i = 0 THEN 0
       ELSE IF responses[i].kind = "balances" THEN responses[i].udvpn \div Million
       ELSE 0

\* getWalletBalance(publicAddress) against endpoints answering responses
GetWalletBalance ==
    /\ \E publicAddress \in {"", PublicAddr},
          responses \in UNION {[1..n -> Responses] : n \in 1..MaxEndpoints} :
         LET address == IF Trim(publicAddress) = "" THEN nodeConfig.walletPublicAddress
                        ELSE publicAddress
             asked == Trim(address) # ""
             last == FirstWithData(responses, 1)
         IN call' = [op |-> "getWalletBalance", address |-> address, responses |-> responses,
                     requests |-> IF ~asked THEN 0
                                  ELSE IF last = 0 THEN Len(responses) ELSE last,
                     denom |-> "DVPN",
                     amount |-> IF asked THEN BalanceAmount(responses) ELSE 0]
    /\ UNCHANGED <<fsMain, fsSub, nodeConfig, container, run, vcLast, keyring, wLast, csLast, server>>

-----------------------------------------------------------------------------
(* authenticateToken: the Bearer-token middleware *)

\* the pieces a header text is made of: the space, a scheme word and the
\* tokens of JwtTokens; a text is a sequence of pieces
HeaderPieces == {SP, "Bearer", "jwtGood", "jwtStale"}

RECURSIVE TextsUpTo(_)
TextsUpTo(n) ==
    IF n = 0 THEN {<<>>}
    ELSE LET shorter == TextsUpTo(n - 1)
         IN shorter \cup {Append(t, c) : t \in {x \in shorter : Len(x) = n - 1},
                                          c \in HeaderPieces}

\* req.headers['authorization']: absent, or a text
NoHeader == [present |-> FALSE, text |-> <<>>]
Headers == {NoHeader} \cup {[present |-> TRUE, text |-> t] : t \in TextsUpTo(MaxHeader)}

\* config.JWT_SECRET: the secret the tokens were signed with, another one,
\* or none
Secrets == {"secret1", "secret2", NoSecret}

\* the tokens that parse as a JWT: the secret that signed them and their exp
JwtTokens ==
    [jwtGood |-> [key |-> "secret1", exp |-> MaxClock + 1],
     jwtStale |-> [key |-> "secret1", exp |-> 1]]

\* String.prototype.split(' '): the runs between the spaces, empty ones kept
RECURSIVE SplitSpace(_)
SplitSpace(t) ==
    LET i == IndexOf(t, SP)
    IN IF i = 0 THEN <<t>>
       ELSE <<SubSeq(t, 1, i - 1)>> \o SplitSpace(SubSeq(t, i + 1, Len(t)))

\* a value that is undefined, or a text
Undefined == [defined |-> FALSE, text |-> <<>>]
Defined(t) == [defined |-> TRUE, text |-> t]

AuthTokenFirstField(h) ==
    IF ~h.present THEN Undefined ELSE Defined(SplitSpace(h.text)[1])

\* authHeader && authHeader.split(' ')[1]
AuthToken(h) ==
    IF ~h.present THEN Undefined
    ELSE IF h.text = <<>> THEN Defined(<<>>)
    ELSE IF Len(SplitSpace(h.text)) < 2 THEN Undefined
    ELSE Defined(SplitSpace(h.text)[2])

\* !token
NoToken(tok) == ~tok.defined \/ tok.text = <<>>

\* jwt.verify returns (does not throw): a secret is given, the text is one
\* token signed with it, and the token has not expired at time now
JwtVerifies(text, secret, now) ==
    /\ secret # NoSecret
    /\ Len(text) = 1
    /\ text[1] \in DOMAIN JwtTokens
    /\ JwtTokens[text[1]].key = secret
    /\ now < JwtTokens[text[1]].exp

\* what one request does: the calls of next() and the statuses sent
Handled(h, secret, now) ==
    LET token == AuthToken(h)
    IN IF NoToken(token) THEN [nextCalls |-> 0, sent |-> <<401>>]
       ELSE IF JwtVerifies(token.text, secret, now) THEN [nextCalls |-> 1, sent |-> <<>>]
       ELSE [nextCalls |-> 0, sent |-> <<403>>]

AuthenticateToken ==
    /\ \E h \in Headers :
         call' = [op |-> "authenticateToken", header |-> h,
                  nextCalls |-> Handled(h, server.secret, server.now).nextCalls,
                  sent |-> Handled(h, server.secret, server.now).sent]
    /\ UNCHANGED <<fsMain, fsSub, nodeConfig, container, run, vcLast, keyring, wLast, csLast, server>>

\* time passes
Tick ==
    /\ server.now < MaxClock
    /\ server' = [server EXCEPT !.now = @ + 1]
    /\ UNCHANGED <<fsMain, fsSub, nodeConfig, container, run, vcLast, keyring, wLast, csLast>>
    /\ call' = NoCall

-----------------------------------------------------------------------------
(* getStatus: checkInstallation and the three answers *)

\* setPassphrase
SetPassphrase ==
    /\ CanCall
    /\ \E p \in {"", " ", "secret"} :
         nodeConfig' = [nodeConfig EXCEPT !.walletPassphrase = p]
    /\ UNCHANGED <<fsMain, fsSub, container, run, vcLast, keyring, wLast, csLast, call, server>>

\* the container command of walletExists rejects
Threw == "throws"

\* what isWalletAvailable gets from walletExists(nodeConfig.walletPassphrase):
\* "true", "false", "undefined" or "throws"
AwaitedWalletExists(cfg, kr, out, rejects) ==
    IF ~WalletExistsLists(cfg, kr, cfg.walletPassphrase)
    THEN WalletExistsResult(cfg, kr, cfg.walletPassphrase, NullOut)
    ELSE IF rejects THEN Threw
    ELSE WalletExistsResult(cfg, kr, cfg.walletPassphrase, out)

IsWalletAvailableUnlessFalse(exists) == exists # "false"

\* isWalletAvailable: `exists ?? false`, and false from the catch
IsWalletAvailable(exists) ==
    IF exists = Threw THEN FALSE
    ELSE IF exists = "undefined" THEN FALSE
    ELSE exists = "true"

\* isConfigFileAvailable: fs.existsSync of the path
IsConfigFileAvailable(f) == f.exists

\* checkInstallation: image and tlsKey are what docker and the file system
\* answer for the image and for CONFIG_DIR/tls.key
CheckInstallation(image, ctr, main, tlsKey, exists) ==
    [image |-> image,
     containerExists |-> ctr # "absent",
     containerRunning |-> ctr = "running",
     nodeConfig |-> IsConfigFileAvailable(main),
     certificateKey |-> IsConfigFileAvailable(tlsKey),
     wallet |-> IsWalletAvailable(exists)]

\* getStatus
StatusOf(install) ==
    IF \/ install.image = FALSE
       \/ install.containerExists = FALSE
       \/ install.nodeConfig = FALSE
       \/ install.certificateKey = FALSE
       \/ install.wallet = FALSE
    THEN "uninstalled"
    ELSE IF install.containerRunning THEN "running" ELSE "stopped"

GetStatus ==
    /\ CanCall
    /\ \E image \in BOOLEAN, tlsKey \in {NoFile, File(<<>>)},
          out \in ListOutputs, rejects \in BOOLEAN :
         LET exists == AwaitedWalletExists(nodeConfig, keyring, out, rejects)
             install == CheckInstallation(image, container, fsMain, tlsKey, exists)
         IN call' = [op |-> "getStatus", image |-> image, tlsKey |-> tlsKey.exists,
                     exists |-> exists, wallet |-> install.wallet,
                     result |-> StatusOf(install)]
    /\ UNCHANGED <<fsMain, fsSub, nodeConfig, container, run, vcLast, keyring, wLast, csLast, server>>

\* a node installed for wireguard with either keyring backend; the keyring
\* directory absent, empty or holding a key
InitWallet ==
    /\ \E b \in {"test", "file"} : fsMain = File(InitMainLines("wireguard", b))
    /\ fsSub = [t \in VpnTypes |-> IF t = "wireguard" THEN File(InitSubLines(t, 1, "udp")) ELSE NoFile]
    /\ nodeConfig = LoadNodeConfig(DefaultNodeConfig, fsMain, fsSub)
    /\ container = "absent"
    /\ run = Idle
    /\ vcLast = NoRun
    /\ keyring \in {[exists |-> FALSE, hasAddress |-> FALSE],
                    [exists |-> TRUE, hasAddress |-> FALSE],
                    [exists |-> TRUE, hasAddress |-> TRUE]}
    /\ wLast = NoWallet
    /\ csLast = NoStore
    /\ call = NoCall
    /\ server = ServerOff

\* walletExists, walletRemove and walletLoadAddresses
NextWallet ==
    \/ WalletExists
    \/ WalletRemove
    \/ WalletLoadAddresses
    \/ SetBackend

SpecWallet == InitWallet /\ [][NextWallet]_vars

\* walletCreate
NextWalletCreate ==
    \/ WalletCreate
    \/ SetBackend

SpecWalletCreate == InitWallet /\ [][NextWalletCreate]_vars

\* walletRecover
NextWalletRecover ==
    \/ WalletRecover
    \/ SetBackend

SpecWalletRecover == InitWallet /\ [][NextWalletRecover]_vars

\* any file of at most MaxLines lines
InitStore ==
    /\ fsMain \in {File(l) : l \in StoreFiles}
    /\ fsSub = [t \in VpnTypes |-> NoFile]
    /\ nodeConfig = DefaultNodeConfig
    /\ container = "absent"
    /\ run = Idle
    /\ vcLast = NoRun
    /\ keyring = [exists |-> FALSE, hasAddress |-> FALSE]
    /\ wLast = NoWallet
    /\ csLast = NoStore
    /\ call = NoCall
    /\ server = ServerOff

NextStore ==
    \/ UpdateValue
    \/ UpdateValueInSection
    \/ ExtractValueInSection

SpecStore == InitStore /\ [][NextStore]_vars

-----------------------------------------------------------------------------
(* The VPN transition specification *)

\* the files a process may find at start: config.toml absent or written for
\* one service type, each sub-config absent or present; the constructor
\* loads the model from them
Init ==
    /\ fsMain \in {NoFile} \cup {File(InitMainLines(t, "test")) : t \in VpnTypes}
    /\ fsSub \in [VpnTypes -> {NoFile}] \cup
                 {[t \in VpnTypes |-> IF t \in S THEN File(InitSubLines(t, 1, "udp")) ELSE NoFile] :
                     S \in SUBSET VpnTypes}
    /\ nodeConfig = LoadNodeConfig(DefaultNodeConfig, fsMain, fsSub)
    /\ container \in {"absent", "stopped", "running"}
    /\ run = Idle
    /\ vcLast = NoRun
    /\ keyring = [exists |-> FALSE, hasAddress |-> FALSE]
    /\ wLast = NoWallet
    /\ csLast = NoStore
    /\ call = NoCall
    /\ server = ServerOff

Next ==
    \/ VpnChangeType
    \/ RefreshConfigFiles
    \/ NodeInitReturns
    \/ ApplyAndReload
    \/ ReconcileRead
    \/ ReconcileStop
    \/ ReconcileRemove
    \/ ReconcileStart
    \/ SetVpnType
    \/ SetVpnPort
    \/ SetVpnProtocol
    \/ ResetNodeConfig
    \/ LoadNodeConfigCall

Spec == Init /\ [][Next]_vars

\* a node installed for wireguard, the container in any state
InitFiles ==
    /\ fsMain = File(InitMainLines("wireguard", "test"))
    /\ fsSub = [t \in VpnTypes |-> IF t = "wireguard" THEN File(InitSubLines(t, 1, "udp")) ELSE NoFile]
    /\ nodeConfig = LoadNodeConfig(DefaultNodeConfig, fsMain, fsSub)
    /\ container \in {"absent", "stopped", "running"}
    /\ run = Idle
    /\ vcLast = NoRun
    /\ keyring = [exists |-> FALSE, hasAddress |-> FALSE]
    /\ wLast = NoWallet
    /\ csLast = NoStore
    /\ call = NoCall
    /\ server = ServerOff

\* every public operation of the node manager; a behaviour makes its wallet
\* call, if any, after setters only and ends with it
NextFiles ==
    \/ ~wLast.valid /\ Next
    \/ ~wLast.valid /\ ~vcLast.valid /\ WalletExists
    \/ ~wLast.valid /\ ~vcLast.valid /\ WalletRemove
    \/ ~wLast.valid /\ ~vcLast.valid /\ WalletLoadAddresses
    \/ ~wLast.valid /\ ~vcLast.valid /\ WalletCreate
    \/ ~wLast.valid /\ ~vcLast.valid /\ WalletRecover

SpecFiles == InitFiles /\ [][NextFiles]_vars

\* a fresh NodeManager whose node addresses are set and loaded
InitAddresses ==
    /\ fsMain = File(InitMainLines("wireguard", "test"))
    /\ fsSub = [t \in VpnTypes |-> NoFile]
    /\ nodeConfig = DefaultNodeConfig
    /\ container = "absent"
    /\ run = Idle
    /\ vcLast = NoRun
    /\ keyring = [exists |-> FALSE, hasAddress |-> FALSE]
    /\ wLast = NoWallet
    /\ csLast = NoStore
    /\ call = NoCall
    /\ server = ServerOff

NextAddresses ==
    \/ SetNodeIp
    \/ SetNodeIpv6
    \/ LoadAddresses

SpecAddresses == InitAddresses /\ [][NextAddresses]_vars

\* a config.toml as node-init writes it, with the hourly_prices line
InitPricedLines(price) ==
    <<Hdr("node"), Kv("service_type", Raw(TRUE, "wireguard")),
      Kv("hourly_prices", Raw(TRUE, price))>>
    \o SubSeq(InitMainLines("wireguard", "test"), 3, 8)

\* a node installed for wireguard whose config.toml holds some hourly prices
InitNodeType ==
    /\ \E price \in {DatacenterHourlyPrices, "udvpn:0.01,50_000_000"} :
         fsMain = File(InitPricedLines(price))
    /\ fsSub = [t \in VpnTypes |-> IF t = "wireguard" THEN File(InitSubLines(t, 1, "udp")) ELSE NoFile]
    /\ nodeConfig = LoadNodeConfig(DefaultNodeConfig, fsMain, fsSub)
    /\ container \in {"absent", "stopped", "running"}
    /\ run = Idle
    /\ vcLast = NoRun
    /\ keyring = [exists |-> FALSE, hasAddress |-> FALSE]
    /\ wLast = NoWallet
    /\ csLast = NoStore
    /\ call = NoCall
    /\ server = ServerOff

\* setters, then refreshConfigFiles, then reloads and further refreshes
NextNodeType ==
    \/ ~vcLast.valid /\ SetNodeType
    \/ SetVpnPort
    \/ RefreshConfigFiles
    \/ vcLast.valid /\ LoadNodeConfigCall

SpecNodeType == InitNodeType /\ [][NextNodeType]_vars

\* the wallet's public address loaded or not
InitBalance ==
    /\ fsMain = File(InitMainLines("wireguard", "test"))
    /\ fsSub = [t \in VpnTypes |-> NoFile]
    /\ \E a \in {"", PublicAddr} :
         nodeConfig = [DefaultNodeConfig EXCEPT !.walletPublicAddress = a]
    /\ container = "absent"
    /\ run = Idle
    /\ vcLast = NoRun
    /\ keyring = [exists |-> FALSE, hasAddress |-> FALSE]
    /\ wLast = NoWallet
    /\ csLast = NoStore
    /\ call = NoCall
    /\ server = ServerOff

NextBalance == GetWalletBalance

SpecBalance == InitBalance /\ [][NextBalance]_vars

\* the main config present or not, the container in any state, the keyring
\* directory absent, empty or holding a key
InitStatus ==
    /\ fsMain \in {NoFile, File(InitMainLines("wireguard", "test"))}
    /\ fsSub = [t \in VpnTypes |-> NoFile]
    /\ nodeConfig = LoadNodeConfig(DefaultNodeConfig, fsMain, fsSub)
    /\ container \in {"absent", "stopped", "running"}
    /\ run = Idle
    /\ vcLast = NoRun
    /\ keyring \in {[exists |-> FALSE, hasAddress |-> FALSE],
                    [exists |-> TRUE, hasAddress |-> FALSE],
                    [exists |-> TRUE, hasAddress |-> TRUE]}
    /\ wLast = NoWallet
    /\ csLast = NoStore
    /\ call = NoCall
    /\ server = ServerOff

NextStatus ==
    \/ GetStatus
    \/ SetBackend
    \/ SetPassphrase

SpecStatus == InitStatus /\ [][NextStatus]_vars

\* the server before its first request
InitAuth ==
    /\ fsMain = File(InitMainLines("wireguard", "test"))
    /\ fsSub = [t \in VpnTypes |-> NoFile]
    /\ nodeConfig = DefaultNodeConfig
    /\ container = "absent"
    /\ run = Idle
    /\ vcLast = NoRun
    /\ keyring = [exists |-> FALSE, hasAddress |-> FALSE]
    /\ wLast = NoWallet
    /\ csLast = NoStore
    /\ call = NoCall
    /\ \E secret \in Secrets : server = [secret |-> secret, now |-> 0]

NextAuth ==
    \/ AuthenticateToken
    \/ Tick

SpecAuth == InitAuth /\ [][NextAuth]_vars

-----------------------------------------------------------------------------
(* Properties of the VPN transition *)

ContainerCalls(calls) == SelectSeq(calls, LAMBDA c : c # "init")

IsPrefix(a, b) == Len(a) <= Len(b) /\ SubSeq(b, 1, Len(a)) = a

\* stop only if running, then remove, then start only if it was running
ExpectedCalls(pre) ==
    CASE pre = "running" -> <<"stop", "remove", "start">>
      [] pre = "stopped" -> <<"remove">>
      [] OTHER -> <<>>

\* C1 (as claimed): in the no-op case (persisted service_type equals the
\* in-memory vpn_type) vpnChangeType makes no container call, runs no
\* node-init and returns true.
CE_C1_NoopReturnsTrue ==
    (vcLast.valid /\ vcLast.kase = "noop") =>
        (vcLast.calls = <<>> /\ vcLast.result = "true")

\* C2: in the change case with the requested type's sub-config absent,
\* node-init is invoked exactly once and before any container call; if it
\* fails, vpnChangeType returns false, no container call is made and the
\* container's state is unchanged.
Thm_C2_NodeInitOnceBeforeContainer ==
    (vcLast.valid /\ vcLast.kase = "change" /\ ~vcLast.subExisted) =>
        /\ Len(vcLast.calls) >= 1
        /\ vcLast.calls[1] = "init"
        /\ \A i \in 2..Len(vcLast.calls) : vcLast.calls[i] # "init"
        /\ (vcLast.initOk # "ok" => vcLast.calls = <<"init">>)
        /\ (vcLast.initOk = "failed" =>
               /\ vcLast.result = "false"
               /\ run.pc = "idle"
               /\ container = vcLast.preContainer)

Wit_C2_NodeInitFailed ==
    /\ vcLast.valid /\ vcLast.kase = "change" /\ ~vcLast.subExisted
    /\ vcLast.initOk = "failed" /\ vcLast.result = "false"
    /\ vcLast.preContainer = "running"

\* C3: in a change case that returns true the container calls are stop
\* (only if it was running), remove, start (only if it was running), in
\* that order, none if the container does not exist; the container runs
\* afterwards iff it ran before.  While the run is in flight the calls made
\* so far are a prefix of that sequence.
Thm_C3_ReconcileOrder ==
    (vcLast.valid /\ vcLast.kase = "change") =>
        /\ IsPrefix(ContainerCalls(vcLast.calls), ExpectedCalls(vcLast.preContainer))
        /\ (vcLast.result = "true" =>
               /\ ContainerCalls(vcLast.calls) = ExpectedCalls(vcLast.preContainer)
               /\ (container = "running" <=> vcLast.preContainer = "running"))

Wit_C3_RestartedRunning ==
    /\ vcLast.valid /\ vcLast.kase = "change" /\ vcLast.result = "true"
    /\ vcLast.preContainer = "running"
    /\ ContainerCalls(vcLast.calls) = <<"stop", "remove", "start">>
    /\ container = "running"

\* C4 (as claimed): after setVpnType(t) with t different from the persisted
\* service_type, refreshConfigFiles carries out the change case: once its
\* vpnChangeType run has returned true, config.toml holds service_type = t,
\* the sub-config of t exists and an existing container was removed (and
\* started again iff it was running).
CE_C4_RefreshPersistsType ==
    (/\ vcLast.valid /\ vcLast.via = "refresh"
     /\ vcLast.requested # vcLast.diskBefore
     /\ vcLast.result = "true") =>
        /\ ExtractConfigValueInSection(fsMain.lines, "node", "service_type") = vcLast.requested
        /\ fsSub[vcLast.requested].exists
        /\ ContainerCalls(vcLast.calls) = ExpectedCalls(vcLast.preContainer)

-----------------------------------------------------------------------------
(* Properties of the wallet operations *)

\* the passphrase of the last call was missing although one is required
PassphraseMissing == wLast.required /\ (wLast.pass = NullPass \/ Trim(wLast.pass) = "")

\* the last CLI command of the last call answered null
LastCommandNull ==
    /\ wLast.cli # <<>>
    /\ LET last == wLast.cli[Len(wLast.cli)]
       IN CASE last = "list" -> wLast.listOut.null
            [] last = "add" -> wLast.addTpl.kind = "null"
            [] OTHER -> wLast.cmdOut.null

AddressesUnchanged ==
    /\ nodeConfig.walletPublicAddress = wLast.pubBefore
    /\ nodeConfig.walletNodeAddress = wLast.nodeBefore

AddressesEmpty ==
    /\ nodeConfig.walletPublicAddress = ""
    /\ nodeConfig.walletNodeAddress = ""

\* C5 (as claimed): walletCreate and walletRecover never invoke `keys add`
\* when their walletExists check returned true or undefined; for true they
\* return null (create) or false (recover), for undefined they return
\* undefined, and the stored addresses are unchanged.
CE_C5_NoAddUnlessAbsent ==
    (wLast.valid /\ wLast.op \in {"create", "recover"} /\ wLast.exists \in {"true", "undefined"}) =>
        /\ \A i \in 1..Len(wLast.cli) : wLast.cli[i] # "add"
        /\ wLast.result = (IF wLast.exists = "undefined" THEN "undefined"
                           ELSE IF wLast.op = "create" THEN "null" ELSE "false")
        /\ AddressesUnchanged

\* C6 (as claimed): for a wallet that does not exist yet, walletCreate returns
\* a word list iff the CLI output holds a public address (labelled "address:"
\* or a bare sent... token) and a mnemonic of exactly 24 words; every list it
\* returns has 24 elements; otherwise it returns null, and undefined when the
\* output is a passphrase error.
CE_C6_CreateReturnsListIff ==
    (wLast.valid /\ wLast.op = "create" /\ wLast.exists = "false" /\ wLast.addTpl.kind \in {"text", "passerr"}) =>
        IF wLast.addTpl.kind = "passerr" THEN wLast.result = "undefined"
        ELSE /\ wLast.result = "list" <=>
                   (wLast.addTpl.addr \in {"labelled", "bare"}
                    /\ wLast.addTpl.mn # "none" /\ wLast.addTpl.n = MnemonicWords)
             /\ wLast.result = "list" => Len(wLast.words) = MnemonicWords
             /\ wLast.result # "list" => wLast.result = "null"

\* C7 (as claimed): each of walletExists, walletCreate, walletRecover,
\* walletLoadAddresses and walletRemove, called with a null or blank
\* passphrase while one is required, returns undefined and invokes no CLI
\* command.
CE_C7_MissingPassphraseUndefined ==
    (wLast.valid /\ PassphraseMissing) =>
        (wLast.result = "undefined" /\ wLast.cli = <<>>)

\* C8 (as claimed): when the container command answers null during a wallet
\* operation, the operation reports a definite failure (false or null), never
\* undefined.
CE_C8_NullOutputIsFailure ==
    (wLast.valid /\ LastCommandNull) => wLast.result \in {"false", "null"}

\* C9 (as claimed): walletExists returns undefined when the key listing is a
\* passphrase error or the wallet name is empty (then without a CLI call); in
\* every other case it returns true iff the wallet name appears in the
\* listing text, and false otherwise.
CE_C9_ExistsResult ==
    (wLast.valid /\ wLast.op = "exists" /\ ~PassphraseMissing) =>
        IF Trim(nodeConfig.wallet_name) = ""
        THEN wLast.result = "undefined" /\ wLast.cli = <<>>
        ELSE IF IsPassphraseError(wLast.listOut.toks) THEN wLast.result = "undefined"
        ELSE wLast.result =
                (IF Includes(wLast.listOut.toks, nodeConfig.wallet_name) THEN "true" ELSE "false")

\* the `keys delete` answer of the last call is empty or confirms the deletion
DeleteAnswerConfirms ==
    /\ ~wLast.cmdOut.null
    /\ \/ wLast.cmdOut.toks = <<>>
       \/ \E i \in 1..Len(wLast.cmdOut.toks) : wLast.cmdOut.toks[i] \in {"deleted", "removed"}

\* C10 (as claimed): whenever walletRemove returns true, whether the key was
\* deleted or the wallet was already absent, both stored addresses are empty
\* afterwards; it returns true after a delete invocation only if the answer
\* is empty or matches the deletion confirmation.
CE_C10_RemoveTrueClears ==
    (wLast.valid /\ wLast.op = "remove" /\ wLast.result = "true") =>
        /\ AddressesEmpty
        /\ (wLast.cli = <<"list", "delete">> => DeleteAnswerConfirms)

\* C10 (amended): when walletRemove returns true after a delete invocation,
\* the answer was empty or matched the deletion confirmation and both stored
\* addresses are empty afterwards; when it returns true without a delete
\* invocation the wallet was absent from the listing and the stored addresses
\* are left as they were.
Thm_C10_RemoveTrue ==
    (wLast.valid /\ wLast.op = "remove" /\ wLast.result = "true") =>
        IF wLast.cli = <<"list", "delete">>
        THEN DeleteAnswerConfirms /\ AddressesEmpty
        ELSE wLast.cli = <<"list">> /\ wLast.exists = "false" /\ AddressesUnchanged

Wit_C10_DeletedAndCleared ==
    /\ wLast.valid /\ wLast.op = "remove" /\ wLast.result = "true"
    /\ wLast.cli = <<"list", "delete">>
    /\ wLast.pubBefore # "" /\ wLast.nodeBefore # ""
    /\ AddressesEmpty

\* C11 (as claimed): whenever walletLoadAddresses returns false both stored
\* addresses are empty afterwards; whenever it returns true the public
\* address is non-empty; whenever it returns undefined the stored addresses
\* are unchanged.
CE_C11_LoadAddressesOutcome ==
    (wLast.valid /\ wLast.op = "load") =>
        /\ (wLast.result = "false" => AddressesEmpty)
        /\ (wLast.result = "true" => nodeConfig.walletPublicAddress # "")
        /\ (wLast.result = "undefined" => AddressesUnchanged)

\* C12: passphraseRequired() is true iff the backend is exactly "file", the
\* keyring directory exists and it holds an .address file; it is false for
\* every other backend whatever the keyring directory holds; and
\* isPassphraseValid(p) is false only when passphraseRequired() is true and p
\* is null or blank.
Thm_C12_PassphraseRequired ==
    wLast.valid =>
        /\ wLast.required <=>
              (wLast.backendBefore = "file"
               /\ wLast.keyringBefore.exists /\ wLast.keyringBefore.hasAddress)
        /\ (wLast.backendBefore # "file" => ~wLast.required)
        /\ (~wLast.passValid =>
               (wLast.required /\ (wLast.pass = NullPass \/ Trim(wLast.pass) = "")))

Wit_C12_RequiredAndBlank ==
    /\ wLast.valid /\ wLast.required /\ ~wLast.passValid
    /\ wLast.pass = " "

-----------------------------------------------------------------------------
(* Properties of the config store *)

\* some line of the file is a `key = ...` line
KeyInFile(lines, key) ==
    \E i \in 1..Len(lines) : lines[i].k = "kv" /\ lines[i].name = key

\* the header lines "[section]" of the file
HeaderLines(lines, section) == {h \in 1..Len(lines) : lines[h] = Hdr(section)}

\* the `key = ...` lines between a "[section]" header line and the next
\* header line (or the end of the file)
KeyLinesInSection(lines, section, key) ==
    {i \in 1..Len(lines) :
        /\ lines[i].k = "kv" /\ lines[i].name = key
        /\ \E h \in HeaderLines(lines, section) :
              h < i /\ \A m \in (h + 1)..i : lines[m].k # "hdr"}

\* C13 (as claimed): for a file in which "[section]" is a header line
\* followed on later lines by `key = old`, updateValueInSection followed by
\* extractValueInSection returns the written value; likewise updateValue
\* followed by extractValue for a flat key present in the file.
CE_C13_UpdateExtractRoundTrip ==
    csLast.valid =>
        /\ (csLast.op = "updateInSection"
            /\ KeyLinesInSection(csLast.before, csLast.section, csLast.key) # {})
           => csLast.got = csLast.val
        /\ (csLast.op = "update" /\ KeyInFile(csLast.before, csLast.key))
           => csLast.got = csLast.val

\* C14: updateValue on a key absent from the file, and updateValueInSection
\* on an absent section or on a key absent from the named section (even if a
\* key of that name exists in another section), leave the file unchanged and
\* insert nothing.
Thm_C14_AbsentKeyLeavesFile ==
    csLast.valid =>
        /\ (csLast.op = "update" /\ ~KeyInFile(csLast.before, csLast.key))
           => (csLast.after = csLast.before /\ fsMain.lines = csLast.before)
        /\ (csLast.op = "updateInSection"
            /\ KeyLinesInSection(csLast.before, csLast.section, csLast.key) = {})
           => (csLast.after = csLast.before /\ fsMain.lines = csLast.before)

Wit_C14_KeyInOtherSection ==
    /\ csLast.valid /\ csLast.op = "updateInSection"
    /\ HeaderLines(csLast.before, csLast.section) # {}
    /\ KeyLinesInSection(csLast.before, csLast.section, csLast.key) = {}
    /\ KeyInFile(csLast.before, csLast.key)
    /\ fsMain.lines = csLast.before

\* C15 (as claimed): extractValueInSection(content, S, k) returns the empty
\* string or the value of a `k = ...` line lying between the "[S]" header
\* and the next line starting with "[" (or the end of the file), never the
\* value of a k line of another section.
CE_C15_ExtractStaysInSection ==
    (csLast.valid /\ csLast.op = "extractInSection") =>
        \/ csLast.got = ""
        \/ \E i \in KeyLinesInSection(csLast.before, csLast.section, csLast.key) :
              CleanTomlValue(csLast.before[i].val) = csLast.got

\* C16 (as claimed): when updateValue or updateValueInSection rewrites an
\* existing key, every line other than the matched key's line, blank lines
\* before it included, is the same before and after.
CE_C16_OnlyKeyLineChanges ==
    (csLast.valid
     /\ \/ csLast.op = "update" /\ KeyInFile(csLast.before, csLast.key)
        \/ csLast.op = "updateInSection"
           /\ KeyLinesInSection(csLast.before, csLast.section, csLast.key) # {}) =>
        /\ Len(csLast.after) = Len(csLast.before)
        /\ \E i \in 1..Len(csLast.before) :
              /\ csLast.before[i].k = "kv" /\ csLast.before[i].name = csLast.key
              /\ \A m \in 1..Len(csLast.before) : m # i => csLast.after[m] = csLast.before[m]

-----------------------------------------------------------------------------
(* Further properties of the VPN transition and the in-memory model *)

\* C17 (as claimed): vpnChangeType always completes with a boolean result
\* and never throws or rejects, also when the main config file is absent and
\* when, in the no-op case, the sub-config of the current type is absent.
CE_C17_NeverThrows ==
    vcLast.valid => vcLast.result \in {"pending", "true", "false"}

\* C18 (as claimed): when refreshConfigFiles returns, the vpnChangeType run
\* it started has finished, so no step of that run happens after the return.
CE_C18_RefreshAwaitsRun ==
    ~(vcLast.valid /\ vcLast.via = "refresh" /\ vcLast.result = "pending" /\ run.pc # "idle")

\* C19 (as claimed): in every state reachable through the setters,
\* loadNodeConfig, resetNodeConfig, refreshConfigFiles and vpnChangeType,
\* vpn_protocol is udp or tcp, wireguard implies udp and v2ray implies tcp.
CE_C19_ProtocolDerived ==
    /\ nodeConfig.vpn_protocol \in {"udp", "tcp"}
    /\ (nodeConfig.vpn_type = "wireguard" => nodeConfig.vpn_protocol = "udp")
    /\ (nodeConfig.vpn_type = "v2ray" => nodeConfig.vpn_protocol = "tcp")

\* a step changes the main config file or a sub-config file
FilesWritten == fsMain' # fsMain \/ fsSub' # fsSub

\* a step of a setter, of resetNodeConfig or loadNodeConfig, or of a wallet
\* operation
NonWriterStep ==
    \/ SetVpnType \/ SetVpnPort \/ SetVpnProtocol
    \/ ResetNodeConfig \/ LoadNodeConfigCall
    \/ WalletExists \/ WalletRemove \/ WalletLoadAddresses
    \/ WalletCreate \/ WalletRecover

\* a step of a vpnChangeType run that was called directly
DirectRunStep ==
    \/ VpnChangeType
    \/ run.pc # "idle" /\ run.awaited /\ run' # run

-----------------------------------------------------------------------------
(* Properties of loading and persisting the in-memory model *)

\* C21: loadNodeConfig called while config.toml is absent changes no field
\* of the in-memory model and writes no file.
Thm_C21_LoadAbsentIsNoop ==
    [][(~fsMain.exists /\ LoadNodeConfigCall)
          => UNCHANGED <<nodeConfig, fsMain, fsSub>>]_vars

\* config.toml is absent and the model holds setter values a load from a
\* file would have replaced, while loadNodeConfig may be called
Wit_C21_AbsentWithSetValues ==
    /\ ~fsMain.exists /\ CanCall
    /\ nodeConfig.vpn_type = "openvpn" /\ nodeConfig.vpn_port = 1
    /\ nodeConfig.vpn_protocol = "tcp"

\* the host an entry of remote_addrs stands for
EntryHost(entry) ==
    CASE entry \in {V4, V4Port} -> V4
      [] entry \in {V6, V6Port} -> V6
      [] OTHER -> <<>>

\* the host of the first entry of the array that is one of these entries
FirstOf(remote, entries) ==
    LET S == {i \in 1..Len(remote) : remote[i] \in entries}
    IN EntryHost(remote[CHOOSE i \in S : \A j \in S : i <= j])

\* C22: after loadNodeConfig on a config whose api_port carries no IP, with
\* node_ip unset or "0.0.0.0" before, node_ip is the first IPv4-looking entry
\* of remote_addrs and node_ipv6 the first IPv6-looking entry, whatever the
\* order of the IPv4 and IPv6 entries.
CE_C22_AddressesByFamily ==
    (/\ call.op = "loadNodeConfig"
     /\ call.apiPort = <<QUOTE, "8080", QUOTE>>
     /\ call.ipBefore \in {<<>>, <<"0.0.0.0">>}
     /\ \A i \in 1..Len(call.remote) : call.remote[i] \in {V4, V4Port, V6, V6Port}) =>
        /\ (\E i \in 1..Len(call.remote) : call.remote[i] \in {V4, V4Port})
              => nodeConfig.node_ip = FirstOf(call.remote, {V4, V4Port})
        /\ (\E i \in 1..Len(call.remote) : call.remote[i] \in {V6, V6Port})
              => nodeConfig.node_ipv6 = FirstOf(call.remote, {V6, V6Port})

-----------------------------------------------------------------------------
(* Properties of the balance lookup *)

\* the endpoints, in configured order, whose body holds a balances array
WithBalances(responses) ==
    {i \in 1..Len(responses) : responses[i].kind \in {"balances", "balancesWithoutUdvpn"}}

\* C23: getWalletBalance returns {denom: "DVPN", amount: a / 1,000,000}, a the
\* udvpn amount from the first endpoint, in configured order, whose body
\* holds a balances array; endpoints that time out, fail or answer with a
\* body lacking balances are skipped and the next endpoint is tried.
CE_C23_FirstBalancesEndpoint ==
    (call.op = "getWalletBalance" /\ call.address # "") =>
        LET S == WithBalances(call.responses)
        IN S # {} =>
             LET first == CHOOSE i \in S : \A j \in S : i <= j
             IN /\ call.denom = "DVPN"
                /\ call.requests = first
                /\ call.responses[first].kind = "balances"
                      => call.amount * Million = call.responses[first].udvpn

-----------------------------------------------------------------------------
(* Properties of a completed VPN transition *)

\* the step in which an awaited change-case vpnChangeType returns true;
\* run.port is the vpn_port the model held when it was called
ChangeRunSucceeds ==
    /\ vcLast.valid /\ vcLast.kase = "change" /\ run.awaited
    /\ vcLast.result = "pending" /\ vcLast'.result = "true"

\* the step in which an awaited change-case vpnChangeType, whose sub-config
\* existed, writes the sub-config and reloads the model; the model still
\* holds the vpn_protocol it held at the call
ChangeRunApplies ==
    /\ run.pc = "apply" /\ run.awaited /\ vcLast.subExisted
    /\ run'.pc = "reconcile"

\* C24: after a successful change-case vpnChangeType the requested type's
\* sub-config holds the vpn_port, and for openvpn the vpn_protocol, the model
\* held when vpnChangeType was called, and the reloaded model holds the same
\* values; also when the sub-config had to be created by node-init.
CE_C24_TransitionKeepsPort ==
    [][/\ ChangeRunSucceeds =>
             /\ fsSub'[vcLast.requested].exists
             /\ ExtractConfigValue(fsSub'[vcLast.requested].lines, "port") = NumToStr(run.port)
             /\ nodeConfig'.vpn_port = run.port
       /\ (ChangeRunApplies /\ vcLast.requested = "openvpn" /\ nodeConfig.vpn_protocol # "") =>
             /\ ExtractConfigValue(fsSub'["openvpn"].lines, "protocol") = nodeConfig.vpn_protocol
             /\ nodeConfig'.vpn_protocol = nodeConfig.vpn_protocol]_vars

-----------------------------------------------------------------------------
(* Further properties of the wallet operations *)

\* how many lines of a standard input equal the line x
Occurrences(stdin, x) == Cardinality({i \in 1..Len(stdin) : stdin[i] = x})

\* C25: whenever walletCreate invokes the key-creation command with a
\* non-null passphrase, the standard input holds the passphrase exactly twice
\* and exactly two empty lines; also for the first wallet under backend
\* "file", when the keyring directory holds no .address file yet.
CE_C25_CreateFeedsPassphraseTwice ==
    (/\ wLast.valid /\ wLast.op = "create"
     /\ \E i \in 1..Len(wLast.cli) : wLast.cli[i] = "add"
     /\ wLast.pass # NullPass) =>
        /\ Occurrences(wLast.stdin, wLast.pass) = 2
        /\ Occurrences(wLast.stdin, "") = 2

\* C26: walletRecover on a not-yet-existing wallet returns true iff a public
\* address is parsed from the CLI output, whatever the number of mnemonic
\* words, and then walletPublicAddress is the parsed address; when it
\* returns false or undefined the stored addresses are unchanged.
Thm_C26_RecoverOutcome ==
    (/\ wLast.valid /\ wLast.op = "recover"
     /\ wLast.exists = "false") =>
        LET out == AddOutputs[wLast.addTpl]
            parsed == ParsedAdd[wLast.addTpl]
            answered == ~out.null /\ ~IsPassphraseError(out.toks)
        IN /\ wLast.result \in {"true", "false", "undefined"}
           /\ wLast.result = "true" <=> (answered /\ parsed.found)
           /\ wLast.result = "true" => nodeConfig.walletPublicAddress = parsed.publicAddress
           /\ wLast.result # "true" => AddressesUnchanged

\* a recovery with fewer words than a full mnemonic stored the parsed address
Wit_C26_ShortMnemonicRecovered ==
    /\ wLast.valid /\ wLast.op = "recover" /\ wLast.exists = "false"
    /\ wLast.mnemonicLen < MnemonicWords
    /\ wLast.result = "true"
    /\ nodeConfig.walletPublicAddress = PublicAddr
    /\ wLast.pubBefore = ""

-----------------------------------------------------------------------------
(* Properties of the node type *)

\* C27: node_type survives a persist-and-reload round trip: for t in
\* {datacenter, residential}, setNodeType(t) followed by refreshConfigFiles
\* and then loadNodeConfig leaves node_type = t.
CE_C27_NodeTypeRoundTrip ==
    (/\ call.op = "setNodeType" /\ call.t \in {"datacenter", "residential"}
     /\ vcLast.valid /\ vcLast.via = "refresh" /\ vcLast.result = "true"
     /\ nodeConfig = LoadNodeConfig(nodeConfig, fsMain, fsSub)) =>
        nodeConfig.node_type = call.t

-----------------------------------------------------------------------------
(* Properties of a repeated VPN transition *)

\* the last vpnChangeType returned false because node-init failed, and a
\* new invocation starts with the same requested vpn_type
RetryBegins ==
    /\ vcLast.valid /\ vcLast.result = "false" /\ vcLast.initOk = "failed"
    /\ run.pc = "idle"
    /\ nodeConfig.vpn_type = vcLast.requested
    /\ vcLast' # vcLast

-----------------------------------------------------------------------------
(* Properties of getStatus *)

\* the five checks as the state and the answers of docker, the file system
\* and walletExists give them
AllInstalled ==
    /\ call.image
    /\ container # "absent"
    /\ fsMain.exists
    /\ call.tlsKey
    /\ call.exists = "true"

\* C29: getStatus returns "uninstalled" iff at least one of image available,
\* container exists, main config present, certificate key present and wallet
\* available is false; otherwise "running" iff the container is running and
\* "stopped" if not; the wallet check is false when walletExists yields
\* undefined or throws
Thm_C29_StatusFromInstallation ==
    call.op = "getStatus" =>
        /\ call.result = "uninstalled" <=> ~AllInstalled
        /\ AllInstalled => (call.result = "running" <=> container = "running")
        /\ (AllInstalled /\ container # "running") => call.result = "stopped"
        /\ call.exists \in {"undefined", Threw} => ~call.wallet

\* everything is in place and the container runs, but the file keyring needs
\* a passphrase and none is stored: walletExists yields undefined
Wit_C29_UninstalledByPassphrase ==
    /\ call.op = "getStatus"
    /\ call.image /\ call.tlsKey /\ fsMain.exists /\ container = "running"
    /\ nodeConfig.backend = "file" /\ keyring.hasAddress
    /\ nodeConfig.walletPassphrase = ""
    /\ call.exists = "undefined"
    /\ call.result = "uninstalled"

-----------------------------------------------------------------------------
(* Properties of authenticateToken *)

\* the header of the last request has a second space-separated field that
\* is not empty
CarriesToken ==
    /\ call.header.present
    /\ Len(SplitSpace(call.header.text)) >= 2
    /\ SplitSpace(call.header.text)[2] # <<>>

\* and that field verifies against JWT_SECRET
TokenVerifies ==
    /\ CarriesToken
    /\ JwtVerifies(SplitSpace(call.header.text)[2], server.secret, server.now)

\* C30: authenticateToken calls next() iff the second space-separated field
\* of the Authorization header verifies against JWT_SECRET; with no token it
\* responds 401, with an invalid or expired token 403, next() is not called
\* in those cases, and exactly one of next() or a response happens
Thm_C30_NextIffTokenVerifies ==
    call.op = "authenticateToken" =>
        /\ call.nextCalls = 1 <=> TokenVerifies
        /\ ~CarriesToken => (call.sent = <<401>> /\ call.nextCalls = 0)
        /\ (CarriesToken /\ ~TokenVerifies) => (call.sent = <<403>> /\ call.nextCalls = 0)
        /\ call.nextCalls + Len(call.sent) = 1

\* a token signed with the secret but expired is refused with 403
Wit_C30_ExpiredTokenRefused ==
    /\ call.op = "authenticateToken"
    /\ call.header = [present |-> TRUE, text |-> <<"Bearer", SP, "jwtStale">>]
    /\ server.secret = "secret1" /\ server.now = 1
    /\ call.sent = <<403>> /\ call.nextCalls = 0

====
